---- MODULE Spec2Model ----
(***************************************************************************)
(* Model of the test runner and CI quality-gate pipeline of the agentic    *)
(* AI test framework (src/tests/framework/runners.py, base.py).            *)
(*                                                                         *)
(* Spec: one behaviour is one call of CIRunner.run_ci_tests: it filters    *)
(* the submitted tests, runs the loop of TestRunner.run_tests (setup, run, *)
(* teardown of each test are the points where foreign code is entered, so  *)
(* each is one step), aggregates, saves, writes the CI report and          *)
(* determines the exit code, unless the save raises.                       *)
(* GateSpec applies the CI report and the exit-code rule to every document *)
(* the loop can build; FilesSpec follows _save_results write by write over *)
(* several runs; MetricSpec, TestSpec, DatasetSpec and MainSpec apply the  *)
(* metric calculators (metrics.py), run() of the test classes              *)
(* (implementations.py), the golden-dataset files (fixtures.py) and main   *)
(* of run_ci.py to bounded sets of inputs. AdapterSpec applies the         *)
(* scenario adapters' call (agents_scenario_test/conftest.py) to the       *)
(* messages of a run; ToolSpec, HallucinationSpec, FaithfulnessSpec and    *)
(* GoalSpec compute four calculators of metrics.py from their arguments.   *)
(*                                                                         *)
(* Numbers: min_pass_rate is kept in percent (0.95 is 95) and a rate or an *)
(* average is kept as a fraction [num, den]; comparisons cross-multiply.   *)
(***************************************************************************)
EXTENDS Integers, Sequences, FiniteSets, TLC

\* ------------------------------------------------------------------ bounds
MaxTests == 2

\* -------------------------------------------------------------- base types
\* TestSeverity (base.py:24-29)
TestSeverity == {"critical", "high", "medium", "low"}

\* TestCategory (base.py:32-38)
TestCategory == {"rag_core", "agent_behavior", "team_orchestration",
                 "quality_safety", "performance"}

\* The (severity, category) pairs test cases are drawn from.
TestKinds == { <<"critical", "rag_core">>, <<"high", "performance">>,
               <<"medium", "agent_behavior">> }

\* execution_time values a TestResult may carry (seconds).
ExecTimes == {1, 40}

\* Outcomes of BaseTest.run: a passed result, a failed result, an exception.
RunOutcomes == {"pass", "fail", "raise"}

\* An Optional[List[...]] argument: None, or a list (kept as its set of items,
\* the code only tests membership and truthiness).
NoneFilter == [given |-> FALSE, items |-> {}]

ListFilter(s) == [given |-> TRUE, items |-> s]

\* BaseTest.__init__: a submitted test; name is its position in the submitted
\* list, so that names identify tests.
BaseTest(i, kind) == [name |-> i, severity |-> kind[1], category |-> kind[2]]

TestLists == UNION { [1..n -> TestKinds] : n \in 0..MaxTests }

MakeTests(kinds) == [i \in 1..Len(kinds) |-> BaseTest(i, kinds[i])]

\* ------------------------------------------------------------ configuration
\* A default configuration that requires no severities.
default_ci_config_unfiltered ==
    [ required_severities     |-> NoneFilter,
      required_categories     |-> NoneFilter,
      fail_fast               |-> FALSE,
      min_pass_rate           |-> 95,
      max_critical_failures   |-> 0,
      max_high_failures       |-> 2,
      max_avg_execution_time  |-> 30 ]

\* CIRunner._default_ci_config
default_ci_config ==
    [ required_severities     |-> ListFilter({"critical", "high"}),
      required_categories     |-> NoneFilter,
      fail_fast               |-> FALSE,
      min_pass_rate           |-> 95,
      max_critical_failures   |-> 0,
      max_high_failures       |-> 2,
      max_avg_execution_time  |-> 30 ]

SeverityFilters == { NoneFilter, ListFilter({}), ListFilter({"critical", "high"}),
                     ListFilter({"medium"}) }

CategoryFilters == { NoneFilter, ListFilter({}), ListFilter({"performance"}) }

\* Gate thresholds a caller configures: (min_pass_rate, max_critical_failures,
\* max_high_failures, max_avg_execution_time).
GateThresholds == { <<95, 0, 2, 30>>, <<50, 1, 0, 30>> }

CiConfigs ==
    { [ required_severities     |-> fs,
        required_categories     |-> fc,
        fail_fast               |-> ff,
        min_pass_rate           |-> th[1],
        max_critical_failures   |-> th[2],
        max_high_failures       |-> th[3],
        max_avg_execution_time  |-> th[4] ] :
      fs \in SeverityFilters, fc \in CategoryFilters, ff \in BOOLEAN,
      th \in GateThresholds }

\* ------------------------------------------------------------------ helpers
Range(s) == { s[i] : i \in DOMAIN s }

RECURSIVE SumTimes(_)
SumTimes(rs) == IF rs = <<>> THEN 0
                ELSE rs[1].execution_time + SumTimes(Tail(rs))

Max(a, b) == IF a >= b THEN a ELSE b

\* Python truthiness of an Optional[List]: None and [] are both falsy.
Truthy(f) == f.given /\ f.items # {}


\* ---------------------------------------------------------------- _filter_tests
\* TestRunner._filter_tests with the severity filter applied to the wrong field
\* of the configuration (category filter ignored).
filter_tests_nocat(tests, filter_severity, filter_category) ==
    IF Truthy(filter_severity)
    THEN SelectSeq(tests, LAMBDA t : t.severity \in filter_severity.items)
    ELSE tests

\* TestRunner._filter_tests
filter_tests(tests, filter_severity, filter_category) ==
    LET bySeverity == IF Truthy(filter_severity)
                      THEN SelectSeq(tests, LAMBDA t : t.severity \in filter_severity.items)
                      ELSE tests
    IN  IF Truthy(filter_category)
        THEN SelectSeq(bySeverity, LAMBDA t : t.category \in filter_category.items)
        ELSE bySeverity

\* The results document run_tests starts from (runners.py:34-44); the empty
\* metrics dict is the function with empty domain.
initial_results(filtered) ==
    [ summary      |-> [total_tests |-> Len(filtered), passed |-> 0, failed |-> 0],
      test_results |-> <<>>,
      metrics      |-> <<>>,
      errors       |-> <<>> ]

\* TestResult as BaseTest._create_result builds it (the fields the runner reads).
TestResult(test, passed, time) ==
    [ test_name      |-> test.name,
      category       |-> test.category,
      severity       |-> test.severity,
      passed         |-> passed,
      execution_time |-> time ]

\* ------------------------------------------------------ the body of the loop
\* The result is put in front of the list instead of at its end.
record_result_prepend(res, tr) ==
    [res EXCEPT !.test_results = <<tr>> \o @,
                !.summary.passed = IF tr.passed THEN @ + 1 ELSE @,
                !.summary.failed = IF tr.passed THEN @ ELSE @ + 1]

\* runners.py:57-62: append the result, count it as passed or failed.
record_result(res, tr) ==
    [res EXCEPT !.test_results = Append(@, tr),
                !.summary.passed = IF tr.passed THEN @ + 1 ELSE @,
                !.summary.failed = IF tr.passed THEN @ ELSE @ + 1]

\* The except branch without the error message.
record_error_silent(res, test) ==
    [res EXCEPT !.summary.failed = @ + 1]

\* runners.py:72-76: the except branch; the message names the test.
record_error(res, test) ==
    [res EXCEPT !.errors = Append(@, test.name),
                !.summary.failed = @ + 1]

\* The loop never breaks.
break_never(fail_fast) == FALSE

\* runners.py:63-65 and 78-79: `if fail_fast: break` after a failure.
break_on_failure(fail_fast) == fail_fast

\* ------------------------------------------------ _generate_aggregate_metrics
\* A dict key carries its Python type: a member of an Enum class is not equal
\* to the string that is its value, and json.dump accepts only str keys.
EnumKey(cls, v) == [type |-> cls, value |-> v]

StrKey(s) == [type |-> "str", value |-> s]

\* The Enum class of TestResult.category and TestResult.severity (base.py:47-48).
EnumClassOf(field) == IF field = "category" THEN "TestCategory" ELSE "TestSeverity"

\* One breakdown of runners.py:116-138 by the field "category" or "severity":
\* the keys are result.category / result.severity themselves, Enum members.
breakdown(test_results, field) ==
    [ k \in { EnumKey(EnumClassOf(field), r[field]) : r \in Range(test_results) } |->
        [ passed |-> Cardinality({ i \in DOMAIN test_results :
                        test_results[i][field] = k.value /\ test_results[i].passed }),
          failed |-> Cardinality({ i \in DOMAIN test_results :
                        test_results[i][field] = k.value /\ ~test_results[i].passed }),
          total  |-> Cardinality({ i \in DOMAIN test_results :
                        test_results[i][field] = k.value }) ] ]

\* TestRunner._generate_aggregate_metrics; avg_execution_time is the fraction
\* sum/len, 0.0 when there are no results.
generate_aggregate_metrics(test_results) ==
    [ by_category |-> breakdown(test_results, "category"),
      by_severity |-> breakdown(test_results, "severity"),
      performance |->
        IF test_results # <<>>
        THEN [ avg_execution_time   |-> [num |-> SumTimes(test_results),
                                         den |-> Len(test_results)],
               total_execution_time |-> SumTimes(test_results) ]
        ELSE [ avg_execution_time   |-> [num |-> 0, den |-> 1],
               total_execution_time |-> 0 ] ]

\* results["metrics"]["by_severity"].get(sev, {}).get("failed", 0), sev one of
\* the strings "critical" and "high" (runners.py:260, 270, 334, 344).
severity_failures(res, sev) ==
    IF StrKey(sev) \in DOMAIN res.metrics.by_severity
    THEN res.metrics.by_severity[StrKey(sev)].failed
    ELSE 0

\* results["summary"]["passed"] / max(results["summary"]["total_tests"], 1)
pass_rate(res) ==
    [num |-> res.summary.passed, den |-> Max(res.summary.total_tests, 1)]

\* fraction >= percentage
RateAtLeast(f, pct) == f.num * 100 >= pct * f.den

\* fraction <= integer
FracAtMost(f, n) == f.num <= n * f.den


\* ------------------------------------------------------- _check_quality_gates
\* The high-failures gate compared with < instead of <=.
check_quality_gates_strict(res, ci_config) ==
    [ pass_rate |->
        [ actual    |-> pass_rate(res),
          threshold |-> ci_config.min_pass_rate,
          passed    |-> RateAtLeast(pass_rate(res), ci_config.min_pass_rate) ],
      critical_failures |->
        [ actual    |-> severity_failures(res, "critical"),
          threshold |-> ci_config.max_critical_failures,
          passed    |-> severity_failures(res, "critical") <= ci_config.max_critical_failures ],
      high_failures |->
        [ actual    |-> severity_failures(res, "high"),
          threshold |-> ci_config.max_high_failures,
          passed    |-> severity_failures(res, "high") < ci_config.max_high_failures ],
      avg_execution_time |->
        [ actual    |-> res.metrics.performance.avg_execution_time,
          threshold |-> ci_config.max_avg_execution_time,
          passed    |-> FracAtMost(res.metrics.performance.avg_execution_time,
                                   ci_config.max_avg_execution_time) ] ]

\* CIRunner._check_quality_gates
check_quality_gates(res, ci_config) ==
    [ pass_rate |->
        [ actual    |-> pass_rate(res),
          threshold |-> ci_config.min_pass_rate,
          passed    |-> RateAtLeast(pass_rate(res), ci_config.min_pass_rate) ],
      critical_failures |->
        [ actual    |-> severity_failures(res, "critical"),
          threshold |-> ci_config.max_critical_failures,
          passed    |-> severity_failures(res, "critical") <= ci_config.max_critical_failures ],
      high_failures |->
        [ actual    |-> severity_failures(res, "high"),
          threshold |-> ci_config.max_high_failures,
          passed    |-> severity_failures(res, "high") <= ci_config.max_high_failures ],
      avg_execution_time |->
        [ actual    |-> res.metrics.performance.avg_execution_time,
          threshold |-> ci_config.max_avg_execution_time,
          passed    |-> FracAtMost(res.metrics.performance.avg_execution_time,
                                   ci_config.max_avg_execution_time) ] ]

\* any() in place of all().
build_status_any(gates) ==
    IF \E g \in DOMAIN gates : gates[g].passed THEN "PASSED" ELSE "FAILED"

\* runners.py:230-234: the overall build status.
build_status(gates) ==
    IF \A g \in DOMAIN gates : gates[g].passed THEN "PASSED" ELSE "FAILED"

\* CIRunner._generate_ci_report: the report written to ci_report.json.
generate_ci_report(res, ci_config) ==
    LET gates == check_quality_gates(res, ci_config)
    IN  [ ci_summary |->
            [ build_status |-> build_status(gates),
              total_tests  |-> res.summary.total_tests,
              passed       |-> res.summary.passed,
              failed       |-> res.summary.failed,
              pass_rate    |-> pass_rate(res) ],
          quality_gates |-> gates ]

\* -------------------------------------------------------- _determine_exit_code
\* The operands of the critical-failures comparison exchanged.
determine_exit_code_swapped(res, ci_config) ==
    IF ci_config.max_critical_failures > severity_failures(res, "critical") THEN 1
    ELSE IF ~RateAtLeast(pass_rate(res), ci_config.min_pass_rate) THEN 1
    ELSE IF severity_failures(res, "high") > ci_config.max_high_failures THEN 1
    ELSE 0

\* CIRunner._determine_exit_code
determine_exit_code(res, ci_config) ==
    IF severity_failures(res, "critical") > ci_config.max_critical_failures THEN 1
    ELSE IF ~RateAtLeast(pass_rate(res), ci_config.min_pass_rate) THEN 1
    ELSE IF severity_failures(res, "high") > ci_config.max_high_failures THEN 1
    ELSE 0

\* --------------------------------------------------------------- _save_results
\* The top-level keys of the results document, in the order json.dump writes
\* them: summary, test_results, metrics, errors (runners.py:35-45).
DocChunks == 4

\* json.dump raises TypeError on a dict key that is not a str (default=str
\* converts values only); the keys of the other dicts are string literals.
json_serialisable(res) ==
    \A k \in DOMAIN res.metrics.by_category \cup DOMAIN res.metrics.by_severity :
        k.type = "str"

\* What json.dump(results, f, indent=2, default=str) leaves in the file: the
\* whole document, or what precedes the metrics when their keys are refused.
json_dump(res) ==
    IF json_serialisable(res)
    THEN [doc |-> res, written |-> DocChunks]
    ELSE [doc |-> res, written |-> 2]

\* The file is complete.
Complete(file) == file.written = DocChunks

\* The directory once test_results_<ts>.json holds file (runners.py:152-155):
\* the file is created, or replaced when a file of that name exists.
write_timestamped(dir, ts, file) ==
    [dir EXCEPT !.timestamped = [ t \in DOMAIN @ \cup {ts} |->
                                    IF t = ts THEN file ELSE @[t] ]]

\* The directory once latest_results.json holds file (runners.py:158-160).
write_latest(dir, file) == [dir EXCEPT !.latest = <<file>>]

\* TestRunner._save_results: test_results_<timestamp>.json is opened and
\* dumped, then latest_results.json; a dump that raises ends the method.
save_results(dir, res, ts) ==
    LET file == json_dump(res)
    IN  IF Complete(file)
        THEN [dir |-> write_latest(write_timestamped(dir, ts, file), file),
              raised |-> FALSE]
        ELSE [dir |-> write_timestamped(dir, ts, file), raised |-> TRUE]

\* An output directory without files (TestRunner.__init__ creates it).
empty_dir == [timestamped |-> <<>>, latest |-> <<>>, ci_report |-> <<>>]


\* ----------------------------------------------------------------------- state
VARIABLES
    pc,              \* where run_ci_tests stands: idle, setup, run, teardown,
                     \* done (it returned) or raised (it raised)
    tests,           \* the submitted tests
    ci_config,       \* the configuration in force
    filtered_tests,  \* the result of _filter_tests
    idx,             \* position of the loop in filtered_tests
    results,         \* the results document of run_tests
    calls,           \* the hook calls made so far: [hook, test, outcome]
    output_dir,      \* the files of TestRunner.output_dir
    clock,           \* time.time() in whole seconds
    timestamp,       \* the local variable timestamp of _save_results
    returned,        \* <<>> until the call returns, then <<what it returned>>
    eval             \* a call of a function outside the runner: its name, its
                     \* arguments and result, <<>> until it returns and then
                     \* <<what it returned>>; <<>> when no such call is made

vars == <<pc, tests, ci_config, filtered_tests, idx, results, calls,
          output_dir, clock, timestamp, returned, eval>>

\* The state of the runner.
runner_vars == <<pc, tests, ci_config, filtered_tests, idx, results, calls,
                 output_dir, clock, timestamp, returned>>

\* A runner just constructed: nothing submitted, an empty output directory.
RunnerInit ==
    /\ pc = "idle"
    /\ tests = <<>>
    /\ ci_config = default_ci_config
    /\ filtered_tests = <<>>
    /\ idx = 0
    /\ results = initial_results(<<>>)
    /\ calls = <<>>
    /\ output_dir = empty_dir
    /\ clock = 0
    /\ timestamp = 0
    /\ returned = <<>>

Init ==
    /\ RunnerInit
    /\ eval = <<>>

\* runners.py:81-89 and 185-191: the loop is over; aggregate and save; when
\* the save raises, so do run_tests and run_ci_tests; otherwise write the CI
\* report, determine the exit code and return.
Finish(res, cfg) ==
    LET final  == [res EXCEPT !.metrics = generate_aggregate_metrics(res.test_results)]
        saved  == save_results(output_dir, final, clock)
        rep    == generate_ci_report(final, cfg)
    IN  /\ clock' = clock
        /\ timestamp' = clock
        /\ results' = final
        /\ IF saved.raised
           THEN /\ output_dir' = saved.dir
                /\ returned' = returned
                /\ pc' = "raised"
           ELSE /\ output_dir' = [saved.dir EXCEPT !.ci_report = <<rep>>]
                /\ returned' = <<determine_exit_code(final, cfg)>>
                /\ pc' = "done"

\* The next iteration of `for test in filtered_tests`, or the end of the loop.
Advance(res) ==
    IF idx < Len(filtered_tests)
    THEN /\ pc' = "setup"
         /\ idx' = idx + 1
         /\ results' = res
         /\ UNCHANGED <<output_dir, clock, timestamp, returned>>
    ELSE /\ idx' = idx
         /\ Finish(res, ci_config)

\* runners.py:72-79: the except branch.
OnException(test) ==
    LET res == record_error(results, test)
    IN  IF break_on_failure(ci_config.fail_fast)
        THEN idx' = idx /\ Finish(res, ci_config)
        ELSE Advance(res)

Call(hook, test, outcome) ==
    calls' = Append(calls, [hook |-> hook, test |-> test.name, outcome |-> outcome])

\* run_ci_tests up to the first hook call (runners.py:170-183, 31-48).
Enter(kinds, cfg) ==
    LET ts       == MakeTests(kinds)
        filtered == filter_tests(ts, cfg.required_severities, cfg.required_categories)
    IN  /\ pc = "idle"
        /\ tests' = ts
        /\ ci_config' = cfg
        /\ filtered_tests' = filtered
        /\ calls' = calls
        /\ eval' = eval
        /\ IF filtered = <<>>
           THEN idx' = idx /\ Finish(initial_results(filtered), cfg)
           ELSE /\ pc' = "setup"
                /\ idx' = 1
                /\ results' = initial_results(filtered)
                /\ UNCHANGED <<output_dir, clock, timestamp, returned>>

\* run_ci_tests(tests, ci_config) with a configuration.
run_ci_tests ==
    \E kinds \in TestLists, cfg \in CiConfigs : Enter(kinds, cfg)

\* run_ci_tests(tests): ci_config is None, the default configuration is used.
run_ci_tests_default ==
    \E kinds \in TestLists : Enter(kinds, default_ci_config)

\* runners.py:53: test.setup() returns or raises.
test_setup ==
    /\ pc = "setup"
    /\ UNCHANGED <<eval, tests, ci_config, filtered_tests>>
    /\ \E ok \in BOOLEAN :
         LET test == filtered_tests[idx]
         IN  IF ok
             THEN /\ Call("setup", test, "ok")
                  /\ pc' = "run"
                  /\ UNCHANGED <<idx, results, output_dir, clock, timestamp, returned>>
             ELSE /\ Call("setup", test, "raise")
                  /\ OnException(test)

\* runners.py:56-65: await test.run(), record the result, break on a failed
\* result under fail_fast.
test_run ==
    /\ pc = "run"
    /\ UNCHANGED <<eval, tests, ci_config, filtered_tests>>
    /\ \E outcome \in RunOutcomes, time \in ExecTimes :
         LET test == filtered_tests[idx]
             res  == record_result(results, TestResult(test, outcome = "pass", time))
         IN  /\ Call("run", test, outcome)
             /\ IF outcome = "raise"
                THEN OnException(test)
                ELSE IF outcome = "fail" /\ break_on_failure(ci_config.fail_fast)
                THEN idx' = idx /\ Finish(res, ci_config)
                ELSE /\ pc' = "teardown"
                     /\ results' = res
                     /\ UNCHANGED <<idx, output_dir, clock, timestamp, returned>>

\* runners.py:68: test.teardown() returns or raises.
test_teardown ==
    /\ pc = "teardown"
    /\ UNCHANGED <<eval, tests, ci_config, filtered_tests>>
    /\ \E ok \in BOOLEAN :
         LET test == filtered_tests[idx]
         IN  IF ok
             THEN Call("teardown", test, "ok") /\ Advance(results)
             ELSE Call("teardown", test, "raise") /\ OnException(test)

Next ==
    \/ run_ci_tests
    \/ run_ci_tests_default
    \/ test_setup
    \/ test_run
    \/ test_teardown

Spec == Init /\ [][Next]_vars

\* The event loop runs every awaited call to its end: a step that can be
\* taken is taken (the hooks return or raise in finite time).
FairSpec == Spec /\ WF_vars(Next)


\* ------------------------------------------- the CI decision as a function
\* The document the loop of run_tests (runners.py:48-79, fail_fast off) builds
\* from position i on, when the hooks of filtered[i] end as outcomes[i] says.
RECURSIVE loop_results(_, _, _, _)
loop_results(filtered, outcomes, i, res) ==
    IF i > Len(filtered)
    THEN [res EXCEPT !.metrics = generate_aggregate_metrics(res.test_results)]
    ELSE loop_results(filtered, outcomes, i + 1,
            IF outcomes[i].outcome = "raise"
            THEN record_error(res, filtered[i])
            ELSE record_result(res, TestResult(filtered[i],
                                               outcomes[i].outcome = "pass",
                                               outcomes[i].time)))

\* The ways the hooks of one test can end.
HookOutcomes ==
    { [outcome |-> o, time |-> t] : o \in {"pass", "fail"}, t \in ExecTimes }
        \cup { [outcome |-> "raise", time |-> 0] }

\* Configurations that differ in the gate thresholds only.
GateConfigs ==
    { [default_ci_config EXCEPT !.min_pass_rate = g[1],
                                !.max_critical_failures = g[2],
                                !.max_high_failures = g[3],
                                !.max_avg_execution_time = g[4]] :
        g \in GateThresholds }

\* _generate_ci_report and _determine_exit_code are functions of the results
\* document and the configuration: they start from every document the loop
\* can build for the submitted tests.
GateInit ==
    /\ pc = "gates"
    /\ tests \in { MakeTests(kinds) : kinds \in TestLists }
    /\ ci_config \in GateConfigs
    /\ filtered_tests = tests
    /\ idx = Len(tests)
    /\ results \in { loop_results(tests, o, 1, initial_results(tests)) :
                       o \in [1..Len(tests) -> HookOutcomes] }
    /\ calls = <<>>
    /\ output_dir = empty_dir
    /\ clock = 0
    /\ timestamp = 0
    /\ returned = <<>>
    /\ eval = <<>>

\* runners.py:185-191: write the CI report, return the exit code.
ci_decision ==
    /\ pc = "gates"
    /\ pc' = "done"
    /\ output_dir' = [output_dir EXCEPT
                         !.ci_report = <<generate_ci_report(results, ci_config)>>]
    /\ returned' = <<determine_exit_code(results, ci_config)>>
    /\ UNCHANGED <<eval, tests, ci_config, filtered_tests, idx, results, calls, clock,
                   timestamp>>

GateSpec == GateInit /\ [][ci_decision]_vars


\* ------------------------------------------- _save_results, write by write
\* The clock stops here.
MaxClock == 1

\* Runs to save: an empty test list, one test whose run() returns a passing
\* result, one test whose setup() raises.
SavedRuns ==
    { [kinds |-> <<>>, outcomes |-> <<>>],
      [kinds |-> << <<"critical", "rag_core">> >>,
       outcomes |-> << [outcome |-> "pass", time |-> 1] >>],
      [kinds |-> << <<"critical", "rag_core">> >>,
       outcomes |-> << [outcome |-> "raise", time |-> 0] >>] }

\* A file just opened with mode 'w': it exists and is empty.
opened(res) == [doc |-> res, written |-> 0]

\* run_tests up to the call of _save_results (runners.py:25-86), on a runner
\* whose earlier call, if any, is over.
run_tests ==
    /\ pc \in {"idle", "done", "raised"}
    /\ \E run \in SavedRuns :
         /\ tests' = MakeTests(run.kinds)
         /\ filtered_tests' = tests'
         /\ idx' = Len(tests')
         /\ results' = loop_results(tests', run.outcomes, 1, initial_results(tests'))
    /\ pc' = "open_timestamped"
    /\ UNCHANGED <<eval, ci_config, calls, output_dir, clock, timestamp, returned>>

\* A second passes.
tick ==
    /\ clock < MaxClock
    /\ clock' = clock + 1
    /\ UNCHANGED <<eval, pc, tests, ci_config, filtered_tests, idx, results, calls,
                   output_dir, timestamp, returned>>

\* runners.py:150-153: timestamp = int(time.time()); open(filepath, 'w').
open_timestamped ==
    /\ pc = "open_timestamped"
    /\ timestamp' = clock
    /\ output_dir' = write_timestamped(output_dir, clock, opened(results))
    /\ pc' = "dump_timestamped"
    /\ UNCHANGED <<eval, tests, ci_config, filtered_tests, idx, results, calls, clock,
                   returned>>

\* runners.py:154-155: json.dump writes the document piece by piece; the with
\* block ends when the dump is complete or has raised.
dump_timestamped ==
    /\ pc = "dump_timestamped"
    /\ \E n \in (output_dir.timestamped[timestamp].written + 1)..json_dump(results).written :
         /\ output_dir' = write_timestamped(output_dir, timestamp,
                                            [doc |-> results, written |-> n])
         /\ pc' = IF n < json_dump(results).written THEN "dump_timestamped"
                  ELSE IF Complete(json_dump(results)) THEN "open_latest"
                  ELSE "raised"
    /\ UNCHANGED <<eval, tests, ci_config, filtered_tests, idx, results, calls, clock,
                   timestamp, returned>>

\* runners.py:158-159: open(latest_path, 'w').
open_latest ==
    /\ pc = "open_latest"
    /\ output_dir' = write_latest(output_dir, opened(results))
    /\ pc' = "dump_latest"
    /\ UNCHANGED <<eval, tests, ci_config, filtered_tests, idx, results, calls, clock,
                   timestamp, returned>>

\* runners.py:160 and 88-89: the second dump; then run_tests returns results.
dump_latest ==
    /\ pc = "dump_latest"
    /\ \E n \in (output_dir.latest[1].written + 1)..json_dump(results).written :
         /\ output_dir' = write_latest(output_dir, [doc |-> results, written |-> n])
         /\ IF n < json_dump(results).written
            THEN pc' = "dump_latest" /\ returned' = returned
            ELSE pc' = "done" /\ returned' = <<results>>
    /\ UNCHANGED <<eval, tests, ci_config, filtered_tests, idx, results, calls, clock,
                   timestamp>>

FilesNext ==
    \/ run_tests
    \/ tick
    \/ open_timestamped
    \/ dump_timestamped
    \/ open_latest
    \/ dump_latest

FilesSpec == Init /\ [][FilesNext]_vars


\* -------------------------------------------------- the metric calculators
\* How a call ends: it returns a value or it raises.
Return(v) == [raised |-> FALSE, value |-> v]

Raise == [raised |-> TRUE, value |-> <<>>]

\* metrics.py:18-25. Values and thresholds are in hundredths (70 is 0.7);
\* details is the set of its keys, "figures" standing for the figures of a
\* computed score.
MetricResult(name, value, threshold, passed, details) ==
    [name |-> name, value |-> value, threshold |-> threshold,
     passed |-> passed, details |-> details]

\* The metrics whose value is better when lower.
LowerIsBetter == {"hallucination_detection", "bias_detection", "privacy_leakage"}

HigherIsBetter == {"context_relevance", "answer_relevance", "faithfulness",
                   "goal_attainment", "tool_utilization", "response_coherence"}

\* What a calculator is given:
\*   missing   the input its first check looks at is empty or None,
\*   no_facts  the response has none of the fact patterns,
\*   plain     the score is computed,
\*   fails     a step inside the try block raises.
Shapes == {"missing", "no_facts", "plain", "fails"}

\* Scores a computation can end with: rates, and for privacy_leakage counts.
Rates == {0, 50, 100}

Counts == {0, 100, 200}

\* Thresholds a caller can pass.
Thresholds == {0, 50, 100, 150}

\* An except clause that reports every failure with the value 0.0.
on_error_zero(name, worst, threshold) ==
    Return(MetricResult(name, 0, threshold, FALSE, {"error"}))

\* The except clause of a calculator: `except Exception as e: return
\* MetricResult(name, worst, threshold, False, {"error": str(e)})`.
on_error(name, worst, threshold) ==
    Return(MetricResult(name, worst, threshold, FALSE, {"error"}))

\* RAGMetrics.context_relevance
context_relevance(shape, score, threshold) ==
    IF shape = "missing"
    THEN Return(MetricResult("context_relevance", 0, threshold, FALSE, {"error"}))
    ELSE IF shape = "fails" THEN on_error("context_relevance", 0, threshold)
    ELSE Return(MetricResult("context_relevance", score, threshold,
                             score >= threshold, {"figures"}))

\* RAGMetrics.answer_relevance
answer_relevance(shape, score, threshold) ==
    IF shape = "fails" THEN on_error("answer_relevance", 0, threshold)
    ELSE Return(MetricResult("answer_relevance", score, threshold,
                             score >= threshold, {"figures"}))

\* RAGMetrics.faithfulness
faithfulness(shape, score, threshold) ==
    IF shape = "fails" THEN on_error("faithfulness", 0, threshold)
    ELSE IF shape = "missing"
    THEN Return(MetricResult("faithfulness", 0, threshold, FALSE, {"error"}))
    ELSE Return(MetricResult("faithfulness", score, threshold,
                             score >= threshold, {"figures"}))

\* AgentMetrics.goal_attainment
goal_attainment(shape, score, threshold) ==
    IF shape = "fails" THEN on_error("goal_attainment", 0, threshold)
    ELSE IF shape = "missing"
    THEN Return(MetricResult("goal_attainment", 0, threshold, FALSE, {"error"}))
    ELSE Return(MetricResult("goal_attainment", score, threshold,
                             score >= threshold, {"figures"}))

\* AgentMetrics.tool_utilization_accuracy
tool_utilization_accuracy(shape, score, threshold) ==
    IF shape = "fails" THEN on_error("tool_utilization", 0, threshold)
    ELSE IF shape = "missing"
    THEN Return(MetricResult("tool_utilization", 100, threshold, TRUE, {"note"}))
    ELSE Return(MetricResult("tool_utilization", score, threshold,
                             score >= threshold, {"figures"}))

\* AgentMetrics.response_coherence
response_coherence(shape, score, threshold) ==
    IF shape = "fails" THEN on_error("response_coherence", 0, threshold)
    ELSE IF shape = "missing"
    THEN Return(MetricResult("response_coherence", 0, threshold, FALSE, {"error"}))
    ELSE Return(MetricResult("response_coherence", score, threshold,
                             score >= threshold, {"figures"}))

\* QualityMetrics.hallucination_detection
hallucination_detection(shape, score, threshold) ==
    IF shape = "fails" THEN on_error("hallucination_detection", 100, threshold)
    ELSE IF shape = "missing"
    THEN Return(MetricResult("hallucination_detection", 100, threshold, FALSE, {"error"}))
    ELSE IF shape = "no_facts"
    THEN Return(MetricResult("hallucination_detection", 0, threshold, TRUE, {"note"}))
    ELSE Return(MetricResult("hallucination_detection", score, threshold,
                             score <= threshold, {"figures"}))

\* QualityMetrics.bias_detection
bias_detection(shape, score, threshold) ==
    IF shape = "fails" THEN on_error("bias_detection", 100, threshold)
    ELSE IF shape = "missing"
    THEN Return(MetricResult("bias_detection", 100, threshold, FALSE, {"error"}))
    ELSE Return(MetricResult("bias_detection", score, threshold,
                             score <= threshold, {"figures"}))

\* QualityMetrics.privacy_leakage
privacy_leakage(shape, score, threshold) ==
    IF shape = "fails" THEN on_error("privacy_leakage", 100, threshold)
    ELSE IF shape = "missing"
    THEN Return(MetricResult("privacy_leakage", 0, threshold, TRUE, {"note"}))
    ELSE Return(MetricResult("privacy_leakage", score, threshold,
                             score <= threshold, {"figures"}))

\* The calculator of the name.
calculator(name, shape, score, threshold) ==
    CASE name = "context_relevance"       -> context_relevance(shape, score, threshold)
      [] name = "answer_relevance"        -> answer_relevance(shape, score, threshold)
      [] name = "faithfulness"            -> faithfulness(shape, score, threshold)
      [] name = "goal_attainment"         -> goal_attainment(shape, score, threshold)
      [] name = "tool_utilization"        -> tool_utilization_accuracy(shape, score, threshold)
      [] name = "response_coherence"      -> response_coherence(shape, score, threshold)
      [] name = "hallucination_detection" -> hallucination_detection(shape, score, threshold)
      [] name = "bias_detection"          -> bias_detection(shape, score, threshold)
      [] name = "privacy_leakage"         -> privacy_leakage(shape, score, threshold)

\* A calculator is about to be called, on any input and any threshold.
MetricInit ==
    /\ RunnerInit
    /\ eval \in { [fn |-> name, shape |-> shape, score |-> score,
                    threshold |-> threshold, result |-> <<>>] :
                    name \in HigherIsBetter \cup LowerIsBetter, shape \in Shapes,
                    score \in Rates \cup Counts, threshold \in Thresholds }
    /\ eval.score \in (IF eval.fn = "privacy_leakage" THEN Counts ELSE Rates)

\* The calculator returns (or raises).
calculate ==
    /\ eval.result = <<>>
    /\ eval' = [eval EXCEPT !.result =
                    <<calculator(eval.fn, eval.shape, eval.score, eval.threshold)>>]
    /\ UNCHANGED runner_vars

MetricSpec == MetricInit /\ [][calculate]_vars


\* ------------------------------------------------- run() of the test classes
\* A scenario has at most this many steps.
MaxSteps == 2

TestClasses == {"RAGValidationTest", "AgentBehaviorTest", "TeamOrchestrationTest",
                "QualitySafetyTest", "SystemIntegrationTest"}

\* BaseTest._create_result, called on a test of the class: score and
\* error_message are <<>> for None, metrics is {} (the function with empty
\* domain) when none is given.
create_result(cls, passed, score, metrics, error_message) ==
    [ test_name     |-> cls,
      passed        |-> passed,
      score         |-> score,
      metrics       |-> metrics,
      error_message |-> error_message ]

\* An except clause that reports the score 0.0.
error_result_scored(cls) ==
    Return(create_result(cls, FALSE, <<0>>, <<>>, <<"str(e)">>))

\* The except clause of every run(): `return self._create_result(passed=False,
\* execution_time=execution_time, error_message=str(e))`.
error_result(cls) ==
    Return(create_result(cls, FALSE, <<>>, <<>>, <<"str(e)">>))

\* any() in place of all().
all_passed_any(metrics) == \E k \in DOMAIN metrics : metrics[k].passed

\* all(metric.passed for metric in metrics.values())
all_passed(metrics) == \A k \in DOMAIN metrics : metrics[k].passed

\* The metrics mapping of a run: for each key computed, the MetricResult of
\* its calculator, of which the name and passed are kept; given[k] is what
\* the calculator reports for this response.
computed_metrics(keys, given) == [ k \in keys |-> [name |-> k, passed |-> given[k]] ]

\* The result of a run() that computed the metrics (the return statement that
\* ends each try block of the four metric-based classes).
metrics_result(cls, metrics) ==
    Return(create_result(cls, all_passed(metrics), <<"overall_score">>, metrics, <<>>))

\* RAGValidationTest.run: context_relevance when contexts were retrieved,
\* answer_relevance always, faithfulness when the test data has a context.
RAGValidationTest_run(in) ==
    IF in.raises THEN error_result("RAGValidationTest")
    ELSE metrics_result("RAGValidationTest",
            computed_metrics(
                (IF in.context /\ in.retrieved THEN {"context_relevance"} ELSE {})
                    \cup {"answer_relevance"}
                    \cup (IF in.context THEN {"faithfulness"} ELSE {}),
                in.given))

\* AgentBehaviorTest.run: tool_utilization when "tools_used" is expected.
AgentBehaviorTest_run(in) ==
    IF in.raises THEN error_result("AgentBehaviorTest")
    ELSE metrics_result("AgentBehaviorTest",
            computed_metrics(
                {"goal_attainment", "response_coherence"}
                    \cup (IF in.tools_used THEN {"tool_utilization"} ELSE {}),
                in.given))

\* TeamOrchestrationTest.run
TeamOrchestrationTest_run(in) ==
    IF in.raises THEN error_result("TeamOrchestrationTest")
    ELSE metrics_result("TeamOrchestrationTest",
            computed_metrics({"team_goal_attainment", "team_response_coherence",
                              "collaboration_effectiveness"}, in.given))

\* QualitySafetyTest.run: the metric of the test type, or all of them (the
\* hallucination check only with a context) for any other type.
QualitySafetyTest_run(in) ==
    IF in.raises THEN error_result("QualitySafetyTest")
    ELSE metrics_result("QualitySafetyTest",
            computed_metrics(
                CASE in.test_type = "hallucination" -> {"hallucination_detection"}
                  [] in.test_type = "bias"          -> {"bias_detection"}
                  [] in.test_type = "privacy"       -> {"privacy_leakage"}
                  [] OTHER -> (IF in.context THEN {"hallucination_detection"} ELSE {})
                                \cup {"bias_detection", "privacy_leakage"},
                in.given))

\* BaseSystemTest.run_system_scenario: the keys of the results it returns,
\* "agent_<name>" or "team_<name>" (here the pair) of every step whose agent
\* or team is found.
run_system_scenario(steps) ==
    { <<steps[i].type, steps[i].target>> : i \in { j \in DOMAIN steps : steps[j].found } }

\* step.get("name", f"{type}_{agent or team}") of _validate_system_outcomes.
step_name(step) ==
    IF step.name = <<>> THEN <<step.type, step.target>> ELSE step.name

\* SystemIntegrationTest._validate_system_outcomes
validate_system_outcomes(steps, result_keys, timing_met) ==
    LET completed == { i \in DOMAIN steps : step_name(steps[i]) \in result_keys }
    IN  [ steps_completed       |-> [value |-> Cardinality(completed)],
          steps_failed          |-> [value |-> Len(steps) - Cardinality(completed)],
          total_steps           |-> [value |-> Len(steps)],
          overall_success       |-> [value |-> completed = DOMAIN steps /\ timing_met],
          timing_constraint_met |-> [value |-> timing_met] ]

\* SystemIntegrationTest.run
SystemIntegrationTest_run(in) ==
    IF in.raises THEN error_result("SystemIntegrationTest")
    ELSE LET validation_results ==
                validate_system_outcomes(in.steps, run_system_scenario(in.steps),
                                         in.timing_met)
         IN  Return(create_result("SystemIntegrationTest",
                                  validation_results.overall_success.value,
                                  <<"system_score">>, validation_results, <<>>))

\* run() of the test of the class.
run(in) ==
    CASE in.test = "RAGValidationTest"     -> RAGValidationTest_run(in)
      [] in.test = "AgentBehaviorTest"     -> AgentBehaviorTest_run(in)
      [] in.test = "TeamOrchestrationTest" -> TeamOrchestrationTest_run(in)
      [] in.test = "QualitySafetyTest"     -> QualitySafetyTest_run(in)
      [] in.test = "SystemIntegrationTest" -> SystemIntegrationTest_run(in)

\* The metric keys a class can compute.
MetricKeys(cls) ==
    CASE cls = "RAGValidationTest" -> {"context_relevance", "answer_relevance", "faithfulness"}
      [] cls = "AgentBehaviorTest" -> {"goal_attainment", "tool_utilization", "response_coherence"}
      [] cls = "TeamOrchestrationTest" ->
            {"team_goal_attainment", "team_response_coherence", "collaboration_effectiveness"}
      [] cls = "QualitySafetyTest" ->
            {"hallucination_detection", "bias_detection", "privacy_leakage"}
      [] OTHER -> {}

\* The steps of a scenario: of an agent or a team, found among the system's
\* agents and teams or not, without a name or with one.
Steps ==
    { [type |-> ty, target |-> "sage", found |-> f, name |-> n] :
        ty \in {"agent", "team"}, f \in BOOLEAN, n \in {<<>>, <<"knowledge_query">>} }

Scenarios == UNION { [1..n -> Steps] : n \in 0..MaxSteps }

\* What decides a run(): whether a step of it raises, what the test data
\* holds, what the calculators report, the scenario of a system test.
RunInputs ==
    UNION {
        { [fn |-> "run", test |-> cls, raises |-> r, context |-> c, retrieved |-> rt,
           tools_used |-> tu, test_type |-> tt, given |-> g, steps |-> <<>>,
           timing_met |-> TRUE, result |-> <<>>] :
            r \in BOOLEAN, c \in BOOLEAN, rt \in BOOLEAN, tu \in BOOLEAN,
            tt \in {"hallucination", "bias", "privacy", "general"},
            g \in [MetricKeys(cls) -> BOOLEAN] } :
        cls \in TestClasses \ {"SystemIntegrationTest"} }
    \cup
    { [fn |-> "run", test |-> "SystemIntegrationTest", raises |-> r, context |-> FALSE,
       retrieved |-> FALSE, tools_used |-> FALSE, test_type |-> "general",
       given |-> <<>>, steps |-> st, timing_met |-> tm, result |-> <<>>] :
        r \in BOOLEAN, st \in Scenarios, tm \in BOOLEAN }

\* The fields of the input a class reads; the others keep one value.
Relevant(in) ==
    /\ in.test # "RAGValidationTest" => in.retrieved
    /\ in.test \notin {"RAGValidationTest", "QualitySafetyTest"} => in.context
    /\ in.test # "AgentBehaviorTest" => in.tools_used
    /\ in.test # "QualitySafetyTest" => in.test_type = "general"

TestInit ==
    /\ RunnerInit
    /\ eval \in { in \in RunInputs : in.test = "SystemIntegrationTest" \/ Relevant(in) }

\* run() returns (or raises).
test_run_returns ==
    /\ eval.result = <<>>
    /\ eval' = [eval EXCEPT !.result = <<run(eval)>>]
    /\ UNCHANGED runner_vars

TestSpec == TestInit /\ [][test_run_returns]_vars


\* ---------------------------------------------------------- golden datasets
\* A dataset has at most this many test cases.
MaxCases == 2

\* An Optional value: <<>> is None, <<v>> is the value v.
None == <<>>

Some(v) == <<v>>

\* Python truthiness of an Optional[str] and of an Optional[dict] (a dict is
\* the set of its items): None, "" and {} are false.
TruthyStr(o) == o # None /\ o[1] # ""

TruthyDict(o) == o # None /\ o[1] # {}

\* Values of input_data: a string, or a tuple, which JSON has no form for.
Values == { [type |-> "str", items |-> "What is RAG?"],
            [type |-> "tuple", items |-> "(1, 2)"] }

\* json.dump followed by json.load: a tuple is written as an array and read
\* back as a list; strings, lists and dicts with str keys come back equal.
json_round_trip(v) == IF v.type = "tuple" THEN [v EXCEPT !.type = "list"] ELSE v

\* fixtures.py:11-17
TestData(input_data, expected_output, context, metadata) ==
    [ input_data |-> input_data, expected_output |-> expected_output,
      context |-> context, metadata |-> metadata ]

TestDatas ==
    { TestData(i, [type |-> "str", items |-> "answer"], c, m) :
        i \in Values,
        c \in {None, Some(""), Some("RAG retrieves documents")},
        m \in {None, Some({}), Some({<<"category", "rag">>})} }

\* fixtures.py:20-26
GoldenDataset(name, description, test_cases, version) ==
    [ name |-> name, description |-> description,
      test_cases |-> test_cases, version |-> version ]

GoldenDatasets ==
    { GoldenDataset("golden", "golden cases", cases, version) :
        cases \in UNION { [1..n -> TestDatas] : n \in 0..MaxCases },
        version \in {"1.0", "2.0"} }

\* The case_data dict save_to_file builds for a test case, as it is read
\* back: "context" and "metadata" are keys only when the value is truthy.
case_data(case) ==
    [ k \in {"input_data", "expected_output"}
            \cup (IF TruthyStr(case.context) THEN {"context"} ELSE {})
            \cup (IF TruthyDict(case.metadata) THEN {"metadata"} ELSE {}) |->
        CASE k = "input_data"      -> json_round_trip(case.input_data)
          [] k = "expected_output" -> json_round_trip(case.expected_output)
          [] k = "context"         -> case.context[1]
          [] k = "metadata"        -> case.metadata[1] ]

\* GoldenDataset.save_to_file: the JSON document in the file.
save_to_file(d) ==
    [ name        |-> d.name,
      description |-> d.description,
      version     |-> d.version,
      test_cases  |-> [ i \in DOMAIN d.test_cases |-> case_data(d.test_cases[i]) ] ]

\* dict.get(key): None when the key is absent.
get(dict, key) == IF key \in DOMAIN dict THEN Some(dict[key]) ELSE None

\* GoldenDataset.from_file
from_file(data) ==
    GoldenDataset(
        data.name,
        data.description,
        [ i \in DOMAIN data.test_cases |->
            TestData(data.test_cases[i].input_data,
                     data.test_cases[i].expected_output,
                     get(data.test_cases[i], "context"),
                     get(data.test_cases[i], "metadata")) ],
        IF "version" \in DOMAIN data THEN data.version ELSE "1.0")

\* A dataset is about to be saved.
DatasetInit ==
    /\ RunnerInit
    /\ eval \in { [fn |-> "round_trip", dataset |-> d, file |-> <<>>, result |-> <<>>] :
                    d \in GoldenDatasets }

\* d.save_to_file(filepath)
dataset_save ==
    /\ eval.file = <<>>
    /\ eval' = [eval EXCEPT !.file = <<save_to_file(eval.dataset)>>]
    /\ UNCHANGED runner_vars

\* GoldenDataset.from_file(filepath)
dataset_load ==
    /\ eval.file # <<>>
    /\ eval.result = <<>>
    /\ eval' = [eval EXCEPT !.result = <<from_file(eval.file[1])>>]
    /\ UNCHANGED runner_vars

DatasetNext == dataset_save \/ dataset_load

DatasetSpec == DatasetInit /\ [][DatasetNext]_vars


\* ------------------------------------------------------------- run_ci.py main
TestTypes == {"ci", "sage", "teams", "system", "performance", "all"}

Suites == {"ci", "sage", "teams", "system", "performance"}

\* The tests a suite of test_suites.py submits, by severity and category (one
\* test for each kind of test the suite builds).
suite_tests(suite) ==
    MakeTests(
        CASE suite = "sage"        -> << <<"high", "rag_core">>, <<"high", "agent_behavior">>,
                                         <<"critical", "quality_safety">> >>
          [] suite = "teams"       -> << <<"high", "team_orchestration">> >>
          [] suite = "system"      -> << <<"critical", "rag_core">> >>
          [] suite = "performance" -> << <<"high", "rag_core">> >>
          [] suite = "ci"          -> << <<"critical", "rag_core">>,
                                         <<"high", "agent_behavior">> >>)

\* The filters a suite passes to run_tests: run_performance_tests passes
\* filter_category=[TestCategory.PERFORMANCE], run_ci_test_suite the
\* required severities of its ci_config, the others none.
suite_filter_severity(suite) ==
    IF suite = "ci" THEN ListFilter({"critical", "high"}) ELSE NoneFilter

suite_filter_category(suite) ==
    IF suite = "performance" THEN ListFilter({"performance"}) ELSE NoneFilter

\* TestRunner.run_tests called by a suite (fail_fast off): it returns its
\* document, or raises when _save_results does; outcomes[n] is how the hooks
\* of the submitted test n end.
suite_run_tests(suite, outcomes) ==
    LET filtered == filter_tests(suite_tests(suite), suite_filter_severity(suite),
                                 suite_filter_category(suite))
        doc      == loop_results(filtered,
                                 [ i \in DOMAIN filtered |-> outcomes[filtered[i].name] ],
                                 1, initial_results(filtered))
    IN  IF json_serialisable(doc) THEN Return(doc) ELSE Raise

\* run_ci_test_suite: the exit code of CIRunner.run_ci_tests under the
\* suite's ci_config, whose thresholds are those of the default.
run_ci_test_suite(outcomes) ==
    LET ran == suite_run_tests("ci", outcomes)
    IN  IF ran.raised THEN Raise
        ELSE Return(determine_exit_code(ran.value, default_ci_config))

\* results['summary']['failed'] of a suite that returned.
suite_failed(ran) == ran.value.summary.failed

\* main() of run_ci.py once the arguments are parsed: the exit code of the
\* selected suites; whatever a suite raises is caught and the code is 1.
main(test_type, runs) ==
    CASE test_type = "ci" ->
            LET ran == run_ci_test_suite(runs["ci"])
            IN  IF ran.raised THEN 1 ELSE ran.value
      [] test_type \in {"sage", "teams", "system", "performance"} ->
            LET ran == suite_run_tests(test_type, runs[test_type])
            IN  IF ran.raised THEN 1
                ELSE IF suite_failed(ran) = 0 THEN 0 ELSE 1
      [] test_type = "all" ->
            LET sage_results   == suite_run_tests("sage", runs["sage"])
                team_results   == suite_run_tests("teams", runs["teams"])
                system_results == suite_run_tests("system", runs["system"])
                perf_results   == suite_run_tests("performance", runs["performance"])
            IN  IF \/ sage_results.raised \/ team_results.raised
                   \/ system_results.raised \/ perf_results.raised
                THEN 1
                ELSE IF suite_failed(sage_results) + suite_failed(team_results)
                          + suite_failed(system_results) + suite_failed(perf_results) = 0
                THEN 0 ELSE 1

\* The suites a test type runs.
SuitesOf(test_type) ==
    IF test_type = "all" THEN {"sage", "teams", "system", "performance"} ELSE {test_type}

\* How the hooks of a suite's tests end: run() returns a result that passed
\* or failed, or a hook raises.
SuiteOutcomes(suite) ==
    [ DOMAIN suite_tests(suite) ->
        { [outcome |-> o, time |-> 1] : o \in {"pass", "fail", "raise"} } ]

\* A suite that is not run: its tests are left alone.
NotRun(suite) == [ i \in DOMAIN suite_tests(suite) |-> [outcome |-> "pass", time |-> 1] ]

\* main is about to run: any test type, the tests of its suites ending in
\* any way.
MainInit ==
    /\ RunnerInit
    /\ eval \in { [fn |-> "main", test_type |-> tt, runs |-> runs, result |-> <<>>] :
                    tt \in TestTypes,
                    runs \in [ci : SuiteOutcomes("ci"), sage : SuiteOutcomes("sage"),
                              teams : SuiteOutcomes("teams"),
                              system : SuiteOutcomes("system"),
                              performance : SuiteOutcomes("performance")] }
    /\ \A suite \in Suites \ SuitesOf(eval.test_type) : eval.runs[suite] = NotRun(suite)

\* main returns its exit code.
main_returns ==
    /\ eval.result = <<>>
    /\ eval' = [eval EXCEPT !.result = <<main(eval.test_type, eval.runs)>>]
    /\ UNCHANGED runner_vars

MainSpec == MainInit /\ [][main_returns]_vars


\* ---------------------------------------------------- the scenario adapters
\* The agent's run adds at most this many messages to its memory.
MaxMessages == 2

\* Python truthiness of an Optional[list] (a list is a sequence): None and []
\* are false.
TruthyList(o) == o # None /\ o[1] # <<>>

\* The messages a run can add (agno's Message): role, content, tool_calls and
\* tool_call_id, the last three Optional.
Messages ==
    [ role : {"user", "assistant", "tool"},
      content : {None, Some(""), Some("The sky is blue.")},
      tool_calls : {None, Some(<<>>), Some(<<"call_123">>)},
      tool_call_id : {None, Some("call_123")} ]

\* What agent.arun returned: None, or a response whose content is Optional.
RunResponses == {None, Some([content |-> None]), Some([content |-> Some("Hello")])}

\* conftest.py:65-76: the dict built for a message. "tool_calls" is a key only
\* for an assistant message whose tool_calls is truthy, "tool_call_id" only for
\* a tool message whose tool_call_id is truthy.
format_message(message) ==
    LET with_calls == message.role = "assistant" /\ TruthyList(message.tool_calls)
        with_id    == message.role = "tool" /\ TruthyStr(message.tool_call_id)
    IN  [ k \in {"role", "content"}
                \cup (IF with_calls THEN {"tool_calls"} ELSE {})
                \cup (IF with_id THEN {"tool_call_id"} ELSE {}) |->
            CASE k = "role"         -> message.role
              [] k = "content"      -> IF message.content # None
                                       THEN message.content[1] ELSE ""
              [] k = "tool_calls"   -> message.tool_calls[1]
              [] k = "tool_call_id" -> message.tool_call_id[1] ]

\* conftest.py:79-81: the condition under which the dict is appended.
is_included(formatted_msg) ==
    \/ formatted_msg["content"] # ""
    \/ (formatted_msg["role"] = "assistant" /\ "tool_calls" \in DOMAIN formatted_msg)
    \/ (formatted_msg["role"] = "tool" /\ "tool_call_id" \in DOMAIN formatted_msg)

\* conftest.py:62-82: the loop over new_messages_to_return, from message i on.
RECURSIVE format_messages(_, _, _)
format_messages(messages, i, openai_formatted_messages) ==
    IF i > Len(messages) THEN openai_formatted_messages
    ELSE LET formatted_msg == format_message(messages[i])
         IN  format_messages(messages, i + 1,
                 IF is_included(formatted_msg)
                 THEN Append(openai_formatted_messages, formatted_msg)
                 ELSE openai_formatted_messages)

\* conftest.py:85-90: the message made from the result; str() of a response
\* without content is its repr.
result_message(result) ==
    [ role |-> "assistant",
      content |-> IF result[1].content # None /\ result[1].content[1] # ""
                  THEN result[1].content[1] ELSE "RunResponse(content=None)" ]

\* SageAdapter.call and ScholarAdapter.call (the same code), from the new
\* messages of the run on: conftest.py:61-92, 137-168.
adapter_call(new_messages_to_return, result) ==
    LET openai_formatted_messages == format_messages(new_messages_to_return, 1, <<>>)
    IN  IF openai_formatted_messages = <<>> /\ result # None
        THEN <<result_message(result)>>
        ELSE openai_formatted_messages

\* The adapter is about to format the new messages of a run.
AdapterInit ==
    /\ RunnerInit
    /\ eval \in { [fn |-> "call", messages |-> ms, run_result |-> r, result |-> <<>>] :
                    ms \in UNION { [1..n -> Messages] : n \in 0..MaxMessages },
                    r \in RunResponses }

\* call returns the formatted messages.
call_returns ==
    /\ eval.result = <<>>
    /\ eval' = [eval EXCEPT !.result = <<adapter_call(eval.messages, eval.run_result)>>]
    /\ UNCHANGED runner_vars

AdapterSpec == AdapterInit /\ [][call_returns]_vars


\* --------------------------------------------- the calculators, on their data
\* Here the calculators are computed from their arguments. A value is kept
\* as a fraction [num, den] (Rate(1, 1) is 1.0) and a threshold in hundredths.
Rate(num, den) == [num |-> num, den |-> den]

\* fraction <= percentage
RateAtMost(f, pct) == f.num * 100 <= pct * f.den

\* An expected or an actual list has at most this many tools.
MaxTools == 2

\* Names of tools.
ToolNames == {"search_knowledge_base", "duckduckgo_search", "calculator"}

\* actual_tool_calls: the list AgentBehaviorTest._extract_outcome_from_response
\* builds, one {"tool_name": ...} dict per call of the response.
ToolCallLists == UNION { [1..n -> [tool_name : ToolNames]] : n \in 0..MaxTools }

\* tool_utilization_accuracy without its check for an empty expected_tools.
AgentMetrics_tool_utilization_accuracy_unchecked(expected_tools, actual_tool_calls, threshold) ==
    LET actual_tools == [ i \in DOMAIN actual_tool_calls |->
                            get(actual_tool_calls[i], "tool_name")[1] ]
        expected_set == Range(expected_tools)
        actual_set == Range(actual_tools)
        correctly_used == Cardinality(expected_set \cap actual_set)
        total_expected == Cardinality(expected_set)
        accuracy == IF total_expected > 0
                    THEN Rate(correctly_used, total_expected) ELSE Rate(0, 1)
    IN  Return(MetricResult("tool_utilization", accuracy, threshold,
                   RateAtLeast(accuracy, threshold),
                   [ expected_tools |-> expected_set,
                     actual_tools |-> actual_set,
                     correctly_used |-> correctly_used,
                     total_expected |-> total_expected,
                     missing_tools |-> expected_set \ actual_set,
                     unexpected_tools |-> actual_set \ expected_set ]))

\* AgentMetrics.tool_utilization_accuracy (metrics.py:216-250). list(set)
\* is kept as the set; call.get("tool_name", "") finds the key in every dict
\* of ToolCallLists, so no step of the try block raises.
AgentMetrics_tool_utilization_accuracy(expected_tools, actual_tool_calls, threshold) ==
    IF expected_tools = <<>>
    THEN Return(MetricResult("tool_utilization", Rate(1, 1), threshold, TRUE,
                             [note |-> "No tools expected"]))
    ELSE LET actual_tools == [ i \in DOMAIN actual_tool_calls |->
                                get(actual_tool_calls[i], "tool_name")[1] ]
             expected_set == Range(expected_tools)
             actual_set == Range(actual_tools)
             correctly_used == Cardinality(expected_set \cap actual_set)
             total_expected == Cardinality(expected_set)
             accuracy == IF total_expected > 0
                         THEN Rate(correctly_used, total_expected) ELSE Rate(0, 1)
         IN  Return(MetricResult("tool_utilization", accuracy, threshold,
                        RateAtLeast(accuracy, threshold),
                        [ expected_tools |-> expected_set,
                          actual_tools |-> actual_set,
                          correctly_used |-> correctly_used,
                          total_expected |-> total_expected,
                          missing_tools |-> expected_set \ actual_set,
                          unexpected_tools |-> actual_set \ expected_set ]))

\* tool_utilization_accuracy is about to be called: expected_tools is a list
\* of names.
ToolInit ==
    /\ RunnerInit
    /\ eval \in { [fn |-> "tool_utilization_accuracy", expected_tools |-> e,
                    actual_tool_calls |-> a, threshold |-> t, result |-> <<>>] :
                    e \in UNION { [1..n -> ToolNames] : n \in 0..MaxTools },
                    a \in ToolCallLists, t \in Thresholds }

\* tool_utilization_accuracy returns.
tool_utilization_returns ==
    /\ eval.result = <<>>
    /\ eval' = [eval EXCEPT !.result =
                    <<AgentMetrics_tool_utilization_accuracy(
                          eval.expected_tools, eval.actual_tool_calls, eval.threshold)>>]
    /\ UNCHANGED runner_vars

ToolSpec == ToolInit /\ [][tool_utilization_returns]_vars


\* A text of hallucination_detection has at most this many tokens.
MaxTokens == 2

\* A text is the sequence of its tokens; "" is the empty sequence. A token
\* is a stretch of text that one of the fact patterns matches whole, or a
\* word none of them matches.
Tokens == {"1867", "$100", "Marie Curie", "marie curie", "radium"}

Texts == UNION { [1..n -> Tokens] : n \in 0..MaxTokens }

\* str.lower() of a token or a word.
lower(token) ==
    CASE token = "Marie Curie" -> "marie curie"
      [] token = "The"         -> "the"
      [] token = "Blue"        -> "blue"
      [] OTHER                 -> token

\* fact_patterns (metrics.py:318-323), in their order: years, percentages,
\* money, proper nouns.
fact_patterns == <<"year", "percentage", "money", "proper_noun">>

\* The token is a match of the pattern. No token here is a percentage.
matches(pattern, token) ==
    CASE pattern = "year"        -> token = "1867"
      [] pattern = "percentage"  -> FALSE
      [] pattern = "money"       -> token = "$100"
      [] pattern = "proper_noun" -> token = "Marie Curie"

\* re.findall(pattern, text): the matches, in the order of the text.
RECURSIVE findall(_, _)
findall(pattern, text) ==
    IF text = <<>> THEN <<>>
    ELSE (IF matches(pattern, Head(text)) THEN <<Head(text)>> ELSE <<>>)
            \o findall(pattern, Tail(text))

\* metrics.py:325-327: response_facts, pattern after pattern.
RECURSIVE extract_facts(_, _)
extract_facts(patterns, response) ==
    IF patterns = <<>> THEN <<>>
    ELSE findall(Head(patterns), response) \o extract_facts(Tail(patterns), response)

\* metrics.py:335-338: the facts whose lower-case form is not in the
\* lower-cased context.
RECURSIVE unsupported(_, _)
unsupported(facts, context) ==
    IF facts = <<>> THEN <<>>
    ELSE (IF lower(Head(facts)) \notin { lower(context[i]) : i \in DOMAIN context }
          THEN <<Head(facts)>> ELSE <<>>)
            \o unsupported(Tail(facts), context)

\* QualityMetrics.hallucination_detection (metrics.py:305-355). No step of
\* the try block raises on two strings.
QualityMetrics_hallucination_detection(context, response, threshold) ==
    IF context = <<>> \/ response = <<>>
    THEN Return(MetricResult("hallucination_detection", Rate(1, 1), threshold, FALSE,
                             [error |-> "Missing context or response"]))
    ELSE LET response_facts == extract_facts(fact_patterns, response)
             unsupported_facts == unsupported(response_facts, context)
             hallucination_rate == Rate(Len(unsupported_facts), Len(response_facts))
         IN  IF response_facts = <<>>
             THEN Return(MetricResult("hallucination_detection", Rate(0, 1), threshold,
                                      TRUE, [note |-> "No verifiable facts found"]))
             ELSE Return(MetricResult("hallucination_detection", hallucination_rate,
                                      threshold, RateAtMost(hallucination_rate, threshold),
                                      [ total_facts |-> Len(response_facts),
                                        unsupported_facts |-> unsupported_facts,
                                        hallucination_rate |-> hallucination_rate,
                                        extracted_facts |-> response_facts ]))

\* hallucination_detection is about to be called.
HallucinationInit ==
    /\ RunnerInit
    /\ eval \in { [fn |-> "hallucination_detection", context |-> c, response |-> r,
                    threshold |-> t, result |-> <<>>] :
                    c \in Texts, r \in Texts, t \in Thresholds }

\* hallucination_detection returns.
hallucination_returns ==
    /\ eval.result = <<>>
    /\ eval' = [eval EXCEPT !.result =
                    <<QualityMetrics_hallucination_detection(
                          eval.context, eval.response, eval.threshold)>>]
    /\ UNCHANGED runner_vars

HallucinationSpec == HallucinationInit /\ [][hallucination_returns]_vars


\* A text of faithfulness has at most this many fragments.
MaxSentences == 2

\* A text is the sequence of the fragments that re.split(r'[.!?]+', ...)
\* yields, and a fragment the sequence of its whitespace-delimited words; the
\* fragment without words is the blank one that strip() empties.
Sentences ==
    { <<>>,
      <<"The", "sky", "is", "blue">>,
      <<"the", "grass", "is", "green">>,
      <<"blue", "blue", "whales", "sing", "loudly">>,
      <<"Blue", "whales">> }

SentenceTexts == UNION { [1..n -> Sentences] : n \in 0..MaxSentences }

\* metrics.py:116-120: the text lower-cased, split, and the blank fragments
\* dropped.
RECURSIVE split_sentences(_)
split_sentences(text) ==
    IF text = <<>> THEN <<>>
    ELSE (IF Head(text) # <<>>
          THEN << [ i \in DOMAIN Head(text) |-> lower(Head(text)[i]) ] >> ELSE <<>>)
            \o split_sentences(Tail(text))

\* A support test that asks for one common word.
has_support_any(ans_sent, context_sentences) ==
    \E c \in DOMAIN context_sentences :
        Cardinality(Range(ans_sent) \cap Range(context_sentences[c])) > 0

\* metrics.py:128-136: the inner loop finds a context sentence with
\* overlap > len(ans_words) * 0.3 (on these integers the same as
\* 10 * overlap > 3 * len(ans_words)).
has_support(ans_sent, context_sentences) ==
    \E c \in DOMAIN context_sentences :
        LET ans_words == Range(ans_sent)
            ctx_words == Range(context_sentences[c])
            overlap == Cardinality(ans_words \cap ctx_words)
        IN  10 * overlap > 3 * Cardinality(ans_words)

\* RAGMetrics.faithfulness (metrics.py:111-151). No step of the try block
\* raises on two strings.
RAGMetrics_faithfulness(context, answer, threshold) ==
    LET context_sentences == split_sentences(context)
        answer_sentences == split_sentences(answer)
        supported_count ==
            Cardinality({ a \in DOMAIN answer_sentences :
                            has_support(answer_sentences[a], context_sentences) })
        faithfulness_score == Rate(supported_count, Len(answer_sentences))
    IN  IF answer_sentences = <<>>
        THEN Return(MetricResult("faithfulness", Rate(0, 1), threshold, FALSE,
                                 [error |-> "Empty answer"]))
        ELSE Return(MetricResult("faithfulness", faithfulness_score, threshold,
                                 RateAtLeast(faithfulness_score, threshold),
                                 [ answer_sentences |-> Len(answer_sentences),
                                   supported_sentences |-> supported_count,
                                   support_ratio |-> faithfulness_score ]))

\* faithfulness is about to be called.
FaithfulnessInit ==
    /\ RunnerInit
    /\ eval \in { [fn |-> "faithfulness", context |-> c, answer |-> a,
                    threshold |-> t, result |-> <<>>] :
                    c \in SentenceTexts, a \in SentenceTexts, t \in Thresholds }

\* faithfulness returns.
faithfulness_returns ==
    /\ eval.result = <<>>
    /\ eval' = [eval EXCEPT !.result =
                    <<RAGMetrics_faithfulness(eval.context, eval.answer, eval.threshold)>>]
    /\ UNCHANGED runner_vars

FaithfulnessSpec == FaithfulnessInit /\ [][faithfulness_returns]_vars


\* The goals of an expected outcome, each with the value expected of it: a
\* bool, a number and a string. A value carries its Python type.
TypedValue(type, v) == [type |-> type, v |-> v]

ExpectedValue ==
    [ task_completed  |-> TypedValue("bool", TRUE),
      response_length |-> TypedValue("int", 100),
      status          |-> TypedValue("str", "done") ]

\* The values an actual outcome can hold for a goal: None, or a value of the
\* expected type.
ActualValues(goal_key) ==
    CASE goal_key = "task_completed"  ->
            {None} \cup { Some(TypedValue("bool", b)) : b \in BOOLEAN }
      [] goal_key = "response_length" ->
            {None} \cup { Some(TypedValue("int", n)) : n \in {100, 110, 111} }
      [] goal_key = "status"          ->
            {None} \cup { Some(TypedValue("str", t)) : t \in {"All Done", "failed"} }

\* expected_outcome: a dict over some of the goals.
ExpectedOutcomes == { [ k \in keys |-> ExpectedValue[k] ] : keys \in SUBSET DOMAIN ExpectedValue }

\* actual_outcome: a dict over some of the goals; a key can hold None.
ActualOutcomes ==
    UNION { { [ k \in keys |-> f[k] ] :
                f \in [ task_completed : ActualValues("task_completed"),
                        response_length : ActualValues("response_length"),
                        status : ActualValues("status") ] } :
            keys \in SUBSET DOMAIN ExpectedValue }

\* str.lower() of the strings of the outcomes.
lower_str(s) == IF s = "All Done" THEN "all done" ELSE s

\* `a in b` on these lower-case strings.
is_substring(a, b) == a = b \/ (a = "done" /\ b = "all done")

Abs(n) == IF n < 0 THEN 0 - n ELSE n

\* metrics.py:176-184: the comparison by the type of the expected value;
\* abs(actual - expected) <= abs(expected * 0.1) is kept in tenths.
achieved(expected_value, actual_value) ==
    CASE expected_value.type = "bool" -> actual_value.v = expected_value.v
      [] expected_value.type = "int"  ->
            10 * Abs(actual_value.v - expected_value.v) <= Abs(expected_value.v)
      [] expected_value.type = "str"  ->
            is_substring(lower_str(expected_value.v), lower_str(actual_value.v))

\* metrics.py:172-199: the entry of details["goal_breakdown"] for a goal.
goal_entry(expected_outcome, actual_outcome, goal_key) ==
    LET expected_value == expected_outcome[goal_key]
        actual_value == IF goal_key \in DOMAIN actual_outcome
                        THEN actual_outcome[goal_key] ELSE None
    IN  IF actual_value # None
        THEN [ expected |-> expected_value, actual |-> actual_value,
               achieved |-> achieved(expected_value, actual_value[1]) ]
        ELSE [ expected |-> expected_value, actual |-> None, achieved |-> FALSE ]

\* AgentMetrics.goal_attainment (metrics.py:157-214). `not d` of a dict is
\* true of the empty one. The actual values have the type of the expected
\* ones, so no step of the try block raises.
AgentMetrics_goal_attainment(expected_outcome, actual_outcome, threshold) ==
    IF DOMAIN expected_outcome = {} \/ DOMAIN actual_outcome = {}
    THEN Return(MetricResult("goal_attainment", Rate(0, 1), threshold, FALSE,
                             [error |-> "Missing expected or actual outcome"]))
    ELSE LET total_goals == Cardinality(DOMAIN expected_outcome)
             goal_breakdown ==
                [ k \in DOMAIN expected_outcome |->
                    goal_entry(expected_outcome, actual_outcome, k) ]
             achieved_goals ==
                Cardinality({ k \in DOMAIN expected_outcome : goal_breakdown[k].achieved })
             attainment_score == IF total_goals > 0
                                 THEN Rate(achieved_goals, total_goals) ELSE Rate(0, 1)
         IN  Return(MetricResult("goal_attainment", attainment_score, threshold,
                        RateAtLeast(attainment_score, threshold),
                        [ goal_breakdown |-> goal_breakdown,
                          total_goals |-> total_goals,
                          achieved_goals |-> achieved_goals,
                          attainment_rate |-> attainment_score ]))

\* goal_attainment is about to be called.
GoalInit ==
    /\ RunnerInit
    /\ eval \in { [fn |-> "goal_attainment", expected_outcome |-> e,
                    actual_outcome |-> a, threshold |-> t, result |-> <<>>] :
                    e \in ExpectedOutcomes, a \in ActualOutcomes, t \in Thresholds }

\* goal_attainment returns.
goal_attainment_returns ==
    /\ eval.result = <<>>
    /\ eval' = [eval EXCEPT !.result =
                    <<AgentMetrics_goal_attainment(
                          eval.expected_outcome, eval.actual_outcome, eval.threshold)>>]
    /\ UNCHANGED runner_vars

GoalSpec == GoalInit /\ [][goal_attainment_returns]_vars


\* ===================================================================== claims
\* Vocabulary of the claims, stated on what the hooks did (calls) and on the
\* documents the run produced.

Returned == pc = "done"

\* run_tests is over: it returned its document or raised out of _save_results.
Ended == pc \in {"done", "raised"}

\* Position in filtered_tests of the test called name (names are unique).
PosOf(name) == CHOOSE p \in DOMAIN filtered_tests : filtered_tests[p].name = name

\* A hook of the test raised.
Raised(name) == \E c \in Range(calls) : c.test = name /\ c.outcome = "raise"

\* run() of the test returned a result that did not pass.
FailedRun(name) ==
    \E c \in Range(calls) : c.test = name /\ c.hook = "run" /\ c.outcome = "fail"

FailedOrRaised(p) ==
    Raised(filtered_tests[p].name) \/ FailedRun(filtered_tests[p].name)

Started(name) == \E c \in Range(calls) : c.test = name

\* C1: when run_tests has returned, passed + failed = total_tests and
\* total_tests = len(test_results).
C1_AggregateInvariant ==
    Returned =>
        /\ results.summary.passed + results.summary.failed = results.summary.total_tests
        /\ results.summary.total_tests = Len(results.test_results)

\* C2: under fail_fast, once the test at position p of the filtered list has
\* failed or raised, run_tests has stopped: no hook of a later test was called,
\* no later test is in test_results, and len(test_results) <= p (p counts from
\* 1, so p is index_of_first_failure + 1).
C2_FailFastStops ==
    ci_config.fail_fast =>
        \A p \in DOMAIN filtered_tests :
            FailedOrRaised(p) =>
                /\ Ended
                /\ \A c \in Range(calls) : PosOf(c.test) <= p
                /\ \A r \in Range(results.test_results) : PosOf(r.test_name) <= p
                /\ Len(results.test_results) <= p

\* C2 happens: fail_fast stopped a run that had tests left.
C2_Witness ==
    /\ Ended
    /\ ci_config.fail_fast
    /\ \E p \in DOMAIN filtered_tests : FailedOrRaised(p) /\ p < Len(filtered_tests)

\* C3: without fail_fast, every exception of a hook is caught: the run goes on
\* with the next test (or leaves the loop after the last one), errors has one
\* message naming the test for each exception, each exception adds one to
\* failed, and when the loop is over every filtered test has been started.
C3_ExceptionsRecovered ==
    ~ci_config.fail_fast =>
        /\ \A t \in Range(filtered_tests) :
              Cardinality({ i \in DOMAIN calls :
                              calls[i].test = t.name /\ calls[i].outcome = "raise" })
                = Cardinality({ i \in DOMAIN results.errors : results.errors[i] = t.name })
        /\ results.summary.failed =
              Cardinality({ i \in DOMAIN calls : calls[i].outcome \in {"raise", "fail"} })
        /\ (calls # <<>> /\ calls[Len(calls)].outcome = "raise") =>
              \/ pc = "setup" /\ idx = PosOf(calls[Len(calls)].test) + 1
              \/ Ended /\ PosOf(calls[Len(calls)].test) = Len(filtered_tests)
        /\ Ended => \A t \in Range(filtered_tests) : Started(t.name)

\* C3 happens: a hook raised and a later test was still run.
C3_Witness ==
    /\ Ended
    /\ ~ci_config.fail_fast
    /\ \E i, j \in DOMAIN calls :
          /\ i < j
          /\ calls[i].outcome = "raise"
          /\ calls[j].hook = "run"
          /\ calls[j].test # calls[i].test


\* ---------------------------------------------------------- the CI decision
\* The gate figures, counted from the results document itself.
FailuresOf(sev) ==
    Cardinality({ i \in DOMAIN results.test_results :
                    /\ results.test_results[i].severity = sev
                    /\ ~results.test_results[i].passed })

PassRateOk(min_pass_rate) ==
    results.summary.passed * 100
        >= min_pass_rate * Max(results.summary.total_tests, 1)

AvgTimeOk(max_avg) ==
    \/ results.test_results = <<>>
    \/ SumTimes(results.test_results) <= max_avg * Len(results.test_results)

\* Values of max_critical_failures the exit-code rule is evaluated for.
MaxFailures == 0..2

ExitCode == returned[1]

Report == output_dir.ci_report[1]

BuildStatus == Report.ci_summary.build_status

FailingGates == { g \in DOMAIN Report.quality_gates : ~Report.quality_gates[g].passed }

\* C4: once the loop of run_tests is over, run_ci_tests returns an exit code:
\* 0 exactly when critical failures <= max_critical_failures, pass rate >=
\* min_pass_rate and high failures <= max_high_failures, and 1 otherwise.
C4_ExitCodeRule ==
    Ended =>
        /\ Returned
        /\ ExitCode \in {0, 1}
        /\ ExitCode = 0 <=>
              /\ FailuresOf("critical") <= ci_config.max_critical_failures
              /\ PassRateOk(ci_config.min_pass_rate)
              /\ FailuresOf("high") <= ci_config.max_high_failures

\* C4, the rule alone: on the document a run has built, the exit code that
\* _determine_exit_code computes is 0 exactly when the three conditions hold.
C4_RuleOnDocument ==
    Returned =>
        ExitCode = 0 <=>
            /\ FailuresOf("critical") <= ci_config.max_critical_failures
            /\ PassRateOk(ci_config.min_pass_rate)
            /\ FailuresOf("high") <= ci_config.max_high_failures

\* C5: in the written CI report build_status is PASSED exactly when the four
\* evaluated gates (pass rate, critical failures, high failures, average
\* execution time) all pass, FAILED otherwise, never PENDING; the report's
\* gates are these four, each passing exactly when the figure it reports is
\* within the configured threshold it reports.
C5_BuildStatus ==
    Returned =>
        LET g == Report.quality_gates
        IN  /\ DOMAIN g =
                  {"pass_rate", "critical_failures", "high_failures", "avg_execution_time"}
            /\ BuildStatus \in {"PASSED", "FAILED"}
            /\ BuildStatus = "PASSED" <=> FailingGates = {}
            /\ g.pass_rate.passed <=> PassRateOk(ci_config.min_pass_rate)
            /\ g.critical_failures.passed <=>
                  g.critical_failures.actual <= ci_config.max_critical_failures
            /\ g.high_failures.passed <=>
                  g.high_failures.actual <= ci_config.max_high_failures
            /\ g.avg_execution_time.passed <=> AvgTimeOk(ci_config.max_avg_execution_time)

\* C5 happens: a report of a run with results, of which one failed, is PASSED.
C5_Witness ==
    /\ Returned
    /\ BuildStatus = "PASSED"
    /\ results.summary.failed > 0
    /\ results.test_results # <<>>

\* C6: on fixed results and otherwise equal configuration the exit code is
\* monotonic in max_critical_failures: 0 with k stays 0 with any k2 >= k, and
\* 1 with k2 stays 1 with any k <= k2.
C6_ExitCodeMonotonic ==
    Returned =>
        \A k \in MaxFailures, k2 \in MaxFailures :
            k <= k2 =>
                LET code(n) == determine_exit_code(results,
                                   [ci_config EXCEPT !.max_critical_failures = n])
                IN  /\ code(k) = 0 => code(k2) = 0
                    /\ code(k2) = 1 => code(k) = 1

\* C6 happens: a run with a failed critical test has exit code 0 with the
\* configured max_critical_failures and with a larger one.
C6_Witness ==
    /\ Returned
    /\ ExitCode = 0
    /\ FailuresOf("critical") > 0
    /\ \E k \in MaxFailures :
          /\ k > ci_config.max_critical_failures
          /\ determine_exit_code(results, [ci_config EXCEPT !.max_critical_failures = k]) = 0

\* C7: a PASSED build has exit code 0, and a FAILED build with exit code 0
\* fails the average-execution-time gate and no other.
C7_ExitNarrowerThanStatus ==
    Returned =>
        /\ BuildStatus = "PASSED" => ExitCode = 0
        /\ (ExitCode = 0 /\ BuildStatus = "FAILED") =>
              FailingGates = {"avg_execution_time"}

\* C7 happens: exit code 0 with a FAILED build.
C7_Witness ==
    /\ Returned
    /\ ExitCode = 0
    /\ BuildStatus = "FAILED"

\* C8: test_results is in submission order: of two recorded results the one of
\* the test submitted earlier comes first (a test's name is its position in
\* the submitted list).
C8_ResultsInSubmissionOrder ==
    \A a \in DOMAIN results.test_results, b \in DOMAIN results.test_results :
        a < b => results.test_results[a].test_name < results.test_results[b].test_name

\* C8 happens: two results were recorded.
C8_Witness ==
    /\ Ended
    /\ Len(results.test_results) >= 2

\* C9: the hooks of a test run in the order setup, run, teardown, and a test
\* whose setup returned is torn down before the next test is set up and before
\* run_tests ends.
C9_TeardownAlways ==
    \A i \in DOMAIN calls :
        (calls[i].hook = "setup" /\ calls[i].outcome = "ok") =>
            LET later == { j \in DOMAIN calls : j > i /\ calls[j].hook = "setup" }
                stop  == IF later = {} THEN Len(calls) + 1
                         ELSE CHOOSE j \in later : \A m \in later : j <= m
            IN  (later # {} \/ Ended) =>
                    \E k \in (i + 1)..(stop - 1) :
                        /\ calls[k].hook = "teardown"
                        /\ calls[k].test = calls[i].test
                        /\ \A m \in (i + 1)..(k - 1) : calls[m].hook = "run"

\* ------------------------------------------------------------------ filtering
\* The test passes a filter that restricts whenever it is given.
PassesGiven(t, f, field) == f.given => field \in f.items

SatisfiesGiven(t) ==
    /\ PassesGiven(t, ci_config.required_severities, t.severity)
    /\ PassesGiven(t, ci_config.required_categories, t.category)

\* The test passes a filter that restricts when it is given and not empty.
SatisfiesNonEmpty(t) ==
    /\ Truthy(ci_config.required_severities) => t.severity \in ci_config.required_severities.items
    /\ Truthy(ci_config.required_categories) => t.category \in ci_config.required_categories.items

\* The run was cut short by fail_fast.
Stopped == ci_config.fail_fast /\ \E p \in DOMAIN filtered_tests : FailedOrRaised(p)

\* C10 as stated: the tests executed are exactly the submitted tests that are
\* in every given filter, and total_tests is their number.
C10_ExecutesExactlyFiltered ==
    Ended =>
        /\ { t \in Range(tests) : Started(t.name) } = { t \in Range(tests) : SatisfiesGiven(t) }
        /\ results.summary.total_tests = Cardinality({ t \in Range(tests) : SatisfiesGiven(t) })

\* C10, amended: run_tests selects, in submitted order, exactly the tests that
\* are in every filter that is given and not empty (an absent or an empty
\* filter restricts nothing); total_tests is their number; only selected tests
\* are executed, and all of them unless fail_fast stops the run at a failure.
C10_SelectsFiltered ==
    pc # "idle" =>
        /\ Range(filtered_tests) = { t \in Range(tests) : SatisfiesNonEmpty(t) }
        /\ results.summary.total_tests =
              Cardinality({ t \in Range(tests) : SatisfiesNonEmpty(t) })
        /\ \A c \in Range(calls) :
              \E t \in Range(tests) : t.name = c.test /\ SatisfiesNonEmpty(t)
        /\ (Ended /\ ~Stopped) =>
              \A t \in Range(tests) : SatisfiesNonEmpty(t) => Started(t.name)

\* C10 happens: both filters are in force, one test is left out, one is run.
C10_Witness ==
    /\ Ended
    /\ Truthy(ci_config.required_severities)
    /\ Truthy(ci_config.required_categories)
    /\ \E t \in Range(tests) : ~SatisfiesNonEmpty(t)
    /\ \E t \in Range(tests) : SatisfiesNonEmpty(t) /\ Started(t.name)

\* ------------------------------------------------- the default configuration
\* C11: under the default configuration (run_ci_tests without a ci_config) the
\* tests selected are the submitted tests of severity critical or high, in
\* order; every hook call, every recorded result and every error belongs to
\* one of them and total_tests counts them only, so a medium or low test
\* neither runs nor enters the figures the gates, the build status and the
\* exit code are computed from.
C11_DefaultRunsCriticalHigh ==
    (pc # "idle" /\ ci_config = default_ci_config) =>
        LET required(t) == t.severity \in {"critical", "high"}
            bySeverity(name) == tests[name].severity
        IN  /\ filtered_tests = SelectSeq(tests, required)
            /\ \A c \in Range(calls) : bySeverity(c.test) \in {"critical", "high"}
            /\ \A r \in Range(results.test_results) : r.severity \in {"critical", "high"}
            /\ \A e \in Range(results.errors) : bySeverity(e) \in {"critical", "high"}
            /\ results.summary.total_tests =
                  Cardinality({ i \in DOMAIN tests : required(tests[i]) })

\* C11 happens: a run under the default configuration is over, a medium test
\* was submitted with a critical or high test, and the latter was run.
C11_Witness ==
    /\ Ended
    /\ ci_config = default_ci_config
    /\ \E t \in Range(tests) : t.severity = "medium"
    /\ \E c \in Range(calls) : c.hook = "run"

\* ------------------------------------------------------------ the saved files
\* C12: latest_results.json, whenever it exists, holds a complete document:
\* whoever reads it at any moment of a run reads a whole document, never an
\* empty or a partly written one.
C12_LatestAlwaysComplete ==
    output_dir.latest # <<>> => Complete(output_dir.latest[1])

\* C13: when a call of run_tests is over, latest_results.json holds the whole
\* document of that call, and so does a timestamped file.
C13_LatestIsLastRun ==
    (pc \in {"done", "raised"}) =>
        /\ output_dir.latest = <<[doc |-> results, written |-> DocChunks]>>
        /\ \E t \in DOMAIN output_dir.timestamped :
              output_dir.timestamped[t] = [doc |-> results, written |-> DocChunks]

\* -------------------------------------------------------- the metric results
\* The MetricResult a calculator returned.
Calculated == eval.result[1].value

\* C14: passed is value >= threshold for a higher-is-better metric and
\* value <= threshold for a lower-is-better one, on every path of every
\* calculator and for every threshold.
C14_PassedFollowsThreshold ==
    (eval.result # <<>> /\ ~eval.result[1].raised) =>
        Calculated.passed =
            IF Calculated.name \in LowerIsBetter
            THEN Calculated.value <= Calculated.threshold
            ELSE Calculated.value >= Calculated.threshold

Ran == eval.result[1].value

\* An entry of a metrics mapping that is a MetricResult.
IsMetricResult(entry) == "passed" \in DOMAIN entry

\* C16 as stated: a result that passed has at least one metric and every entry
\* of its metrics mapping is a metric that passed.
C16_PassedNeedsMetrics ==
    (eval.result # <<>> /\ ~eval.result[1].raised /\ Ran.passed) =>
        /\ Ran.metrics # <<>>
        /\ \A k \in DOMAIN Ran.metrics :
              IsMetricResult(Ran.metrics[k]) /\ Ran.metrics[k].passed

\* C16, amended: a result of the four metric-based classes has passed exactly
\* when run() did not fail and every metric of its mapping passed, and the
\* mapping of a run that did not fail has at least one metric; a result of
\* SystemIntegrationTest holds no MetricResult, and passed is its own
\* condition: run() did not fail, the name of every step is a key of the
\* execution results and the timing constraint is met.
C16_PassedByMetricsOrOwnRule ==
    (eval.result # <<>> /\ ~eval.result[1].raised) =>
        IF eval.test = "SystemIntegrationTest"
        THEN /\ \A k \in DOMAIN Ran.metrics : ~IsMetricResult(Ran.metrics[k])
             /\ Ran.passed <=>
                   /\ ~eval.raises
                   /\ eval.timing_met
                   /\ \A i \in DOMAIN eval.steps :
                         \E j \in DOMAIN eval.steps :
                             /\ eval.steps[j].found
                             /\ step_name(eval.steps[i])
                                  = <<eval.steps[j].type, eval.steps[j].target>>
        ELSE /\ \A k \in DOMAIN Ran.metrics : IsMetricResult(Ran.metrics[k])
             /\ ~eval.raises => DOMAIN Ran.metrics # {}
             /\ Ran.passed <=>
                   /\ ~eval.raises
                   /\ \A k \in DOMAIN Ran.metrics : Ran.metrics[k].passed

\* C16 happens: a system test passed on a scenario with a step.
C16_Witness ==
    /\ eval.result # <<>>
    /\ eval.test = "SystemIntegrationTest"
    /\ eval.steps # <<>>
    /\ Ran.passed

\* C17: when a step of run() raises, run() returns a result with passed
\* false, an error message, no score and an empty metrics mapping.
C17_RunRecoversFailure ==
    (eval.result # <<>> /\ eval.raises) =>
        /\ ~eval.result[1].raised
        /\ ~Ran.passed
        /\ Ran.error_message # <<>>
        /\ Ran.score = <<>>
        /\ DOMAIN Ran.metrics = {}

\* C17 happens: a step of run() raised and run() returned.
C17_Witness ==
    /\ eval.result # <<>>
    /\ eval.raises
    /\ eval.test = "AgentBehaviorTest"

\* ---------------------------------------------------------------- termination
\* C18: every call of run_ci_tests ends by returning an exit code 0 or 1, the
\* CI report written.
C18_ReturnsExitCode ==
    <>(Returned /\ ExitCode \in {0, 1} /\ output_dir.ci_report # <<>>)

\* ------------------------------------------------------------- the round trip
\* C19: the dataset loaded from the file a dataset was saved to equals that
\* dataset: name, description, version and, case by case, input_data,
\* expected_output, context and metadata.
C19_RoundTrip ==
    eval.result # <<>> => eval.result[1] = eval.dataset

\* ------------------------------------------------------------ the exit status
\* The quality-gate rule on the document of a suite, its figures counted from
\* the results: no critical failure, pass rate at least 95%, at most two high
\* failures (the thresholds of the CI configuration).
PassingDecision(ran) ==
    /\ ~ran.raised
    /\ Cardinality({ i \in DOMAIN ran.value.test_results :
                        /\ ran.value.test_results[i].severity = "critical"
                        /\ ~ran.value.test_results[i].passed }) <= 0
    /\ ran.value.summary.passed * 100 >= 95 * Max(ran.value.summary.total_tests, 1)
    /\ Cardinality({ i \in DOMAIN ran.value.test_results :
                        /\ ran.value.test_results[i].severity = "high"
                        /\ ~ran.value.test_results[i].passed }) <= 2

\* C20: main exits with 0 only when every suite it ran is a passing CI
\* decision under the quality-gate rule, for every test type.
C20_ExitZeroOnlyWhenPassing ==
    (eval.result # <<>> /\ eval.result[1] = 0) =>
        \A suite \in SuitesOf(eval.test_type) :
            PassingDecision(suite_run_tests(suite, eval.runs[suite]))

\* The adapter's call has returned its list.
Called == eval.fn = "call" /\ eval.result # <<>>

\* The rule of inclusion, on the message as the run left it.
FilterRule(message) ==
    \/ (message.content # None /\ message.content[1] # "")
    \/ (message.role = "assistant" /\ TruthyList(message.tool_calls))
    \/ (message.role = "tool" /\ TruthyStr(message.tool_call_id))

\* The first half of C21: a new message's formatted form is in the output
\* exactly when the message satisfies the rule of inclusion.
C21_IncludedIffRule ==
    Called =>
        \A i \in DOMAIN eval.messages :
            FilterRule(eval.messages[i])
                <=> \E j \in DOMAIN eval.result[1] :
                        eval.result[1][j] = format_message(eval.messages[i])

\* C21: call() includes a formatted message in its output if and only if the
\* message has non-empty content, or is an assistant message carrying
\* tool_calls, or is a tool-role message carrying a tool_call_id; every
\* tool-role message in the output carries a tool_call_id and every assistant
\* tool_calls field is a list.
C21_AdapterOutput ==
    Called =>
        /\ \A i \in DOMAIN eval.messages :
                FilterRule(eval.messages[i])
                    <=> \E j \in DOMAIN eval.result[1] :
                            eval.result[1][j] = format_message(eval.messages[i])
        /\ \A j \in DOMAIN eval.result[1] :
                LET msg == eval.result[1][j]
                IN  /\ msg["role"] = "tool" => "tool_call_id" \in DOMAIN msg
                    /\ (msg["role"] = "assistant" /\ "tool_calls" \in DOMAIN msg)
                            => msg["tool_calls"] \in Seq({"call_123"})

\* The calculator of C22 has returned its MetricResult.
ToolMetric == eval.result[1].value

ToolCalled == eval.fn = "tool_utilization_accuracy" /\ eval.result # <<>>

ActualNames == { eval.actual_tool_calls[i].tool_name : i \in DOMAIN eval.actual_tool_calls }

\* C22: tool_utilization_accuracy returns value = |expected /\ actual| /
\* |expected| over the sets of names, with details listing the missing
\* (expected - actual) and the unexpected (actual - expected) tools; when
\* expected_tools is empty it returns value = 1.0 and passed = true whatever
\* actual_tool_calls and the threshold are.
C22_ToolUtilization ==
    ToolCalled =>
        /\ ~eval.result[1].raised
        /\ IF eval.expected_tools = <<>>
           THEN /\ ToolMetric.value.num = ToolMetric.value.den
                /\ ToolMetric.passed
           ELSE LET expected == Range(eval.expected_tools)
                IN  /\ ToolMetric.value.num * Cardinality(expected)
                            = Cardinality(expected \cap ActualNames) * ToolMetric.value.den
                    /\ ToolMetric.details.missing_tools = expected \ ActualNames
                    /\ ToolMetric.details.unexpected_tools = ActualNames \ expected

\* No tool is expected, tools were called and the threshold is above 1.0: the
\* result is 1.0 and passed.
C22_Witness ==
    /\ ToolCalled
    /\ eval.expected_tools = <<>>
    /\ eval.actual_tool_calls # <<>>
    /\ eval.threshold > 100
    /\ ToolMetric.passed

HallucinationCalled == eval.fn = "hallucination_detection" /\ eval.result # <<>>

\* The positions of the response at which a fact is extracted.
FactPositions ==
    { i \in DOMAIN eval.response :
        \E p \in DOMAIN fact_patterns : matches(fact_patterns[p], eval.response[i]) }

\* Those whose fact is not in the context, case ignored.
UnsupportedPositions ==
    { i \in FactPositions :
        \A j \in DOMAIN eval.context : lower(eval.context[j]) # lower(eval.response[i]) }

\* C23 for the calls whose context and response are not empty.
C23_OnNonEmptyTexts ==
    (HallucinationCalled /\ eval.context # <<>> /\ eval.response # <<>>) =>
        LET m == eval.result[1].value
        IN  IF FactPositions = {}
            THEN m.value.num = 0 /\ m.passed
            ELSE /\ m.value.num * Cardinality(FactPositions)
                        = Cardinality(UnsupportedPositions) * m.value.den
                 /\ m.passed <=> RateAtMost(m.value, m.threshold)

\* C23: hallucination_detection returns value = 0.0 and passed = true whenever
\* no fact is extracted from the response, for every context, the empty one
\* included; otherwise value = (facts not found in the context, case ignored)
\* / (facts extracted) and passed is value <= threshold.
C23_HallucinationRate ==
    HallucinationCalled =>
        LET m == eval.result[1].value
        IN  IF FactPositions = {}
            THEN m.value.num = 0 /\ m.passed
            ELSE /\ m.value.num * Cardinality(FactPositions)
                        = Cardinality(UnsupportedPositions) * m.value.den
                 /\ m.passed <=> RateAtMost(m.value, m.threshold)

FaithfulnessCalled == eval.fn = "faithfulness" /\ eval.result # <<>>

\* The distinct words of a fragment, case ignored.
WordsOf(sentence) == { lower(sentence[i]) : i \in DOMAIN sentence }

\* The positions of a text that hold a sentence.
SentencePositions(text) == { i \in DOMAIN text : text[i] # <<>> }

\* The answer sentences that share with some context sentence strictly more
\* than 30% of their distinct words.
SupportedPositions ==
    { a \in SentencePositions(eval.answer) :
        \E c \in SentencePositions(eval.context) :
            10 * Cardinality(WordsOf(eval.answer[a]) \cap WordsOf(eval.context[c]))
                > 3 * Cardinality(WordsOf(eval.answer[a])) }

\* C24: faithfulness returns value = supported / total answer sentences, an
\* answer sentence being supported iff some context sentence shares with it
\* strictly more than 30% of its distinct words, case ignored; an answer
\* without sentences gives 0.0 and failed; and faithfulness(t, t) = 1.0 for
\* every text t with a sentence.
C24_Faithfulness ==
    FaithfulnessCalled =>
        LET m == eval.result[1].value
            total == Cardinality(SentencePositions(eval.answer))
        IN  /\ ~eval.result[1].raised
            /\ IF total = 0
               THEN m.value.num = 0 /\ ~m.passed
               ELSE m.value.num * total = Cardinality(SupportedPositions) * m.value.den
            /\ (total > 0 /\ eval.context = eval.answer) => m.value.num = m.value.den

\* An answer of two sentences of which one is supported: "blue blue whales
\* sing loudly" shares one word of its four with "The sky is blue", which
\* is 25%, and "Blue whales" shares one of its two.
C24_Witness ==
    /\ FaithfulnessCalled
    /\ eval.context = << <<"The", "sky", "is", "blue">> >>
    /\ eval.answer = << <<"blue", "blue", "whales", "sing", "loudly">>, <<"Blue", "whales">> >>
    /\ eval.result[1].value.value = Rate(1, 2)

GoalCalled == eval.fn = "goal_attainment" /\ eval.result # <<>>

\* The actual value of a goal, None when the key is missing.
ActualOf(goal_key) ==
    IF goal_key \in DOMAIN eval.actual_outcome
    THEN eval.actual_outcome[goal_key] ELSE None

\* The goal is achieved: its key is in actual and the value compares, a bool
\* by equality, a number within 10%, a string as a substring, case ignored.
Achieved(goal_key) ==
    /\ ActualOf(goal_key) # None
    /\ LET e == eval.expected_outcome[goal_key]
           a == ActualOf(goal_key)[1]
       IN  CASE e.type = "bool" -> a.v = e.v
             [] e.type = "int"  -> 10 * Abs(a.v - e.v) <= Abs(e.v)
             [] e.type = "str"  -> is_substring(lower_str(e.v), lower_str(a.v))

\* What C25 says of a call with goals.
GoalsReported ==
    LET m == eval.result[1].value
        expected == DOMAIN eval.expected_outcome
    IN  /\ ~eval.result[1].raised
        /\ m.value.num * Cardinality(expected)
                = Cardinality({ k \in expected : Achieved(k) }) * m.value.den
        /\ "goal_breakdown" \in DOMAIN m.details
        /\ DOMAIN m.details.goal_breakdown = expected
        /\ \A k \in expected :
                /\ m.details.goal_breakdown[k].expected = eval.expected_outcome[k]
                /\ m.details.goal_breakdown[k].actual = ActualOf(k)
                /\ m.details.goal_breakdown[k].achieved = Achieved(k)

\* C25 for the calls whose actual outcome has a key.
C25_OnNonEmptyActual ==
    (GoalCalled /\ DOMAIN eval.expected_outcome # {} /\ DOMAIN eval.actual_outcome # {})
        => GoalsReported

\* C25: goal_attainment returns value = achieved / total over the keys of
\* expected, a key missing from actual counting as not achieved without
\* aborting the computation, and details.goal_breakdown has one entry per
\* expected key with expected, actual and achieved.
C25_GoalAttainment ==
    (GoalCalled /\ DOMAIN eval.expected_outcome # {}) => GoalsReported

\* The tests run_tests started: those of which a hook was called.
StartedTests == { c.test : c \in Range(calls) }

\* C26: every test case that run_tests starts is counted exactly once: when
\* the run is over, summary.passed + summary.failed is the number of tests
\* started and so is len(test_results) + len(errors), also when a hook raises
\* before or after the result of the test was recorded.
C26_CountedOnce ==
    Ended =>
        /\ results.summary.passed + results.summary.failed = Cardinality(StartedTests)
        /\ Len(results.test_results) + Len(results.errors) = Cardinality(StartedTests)

\* The sum of a count ("passed" or "failed") over the keys of a breakdown.
RECURSIVE SumOver(_, _, _)
SumOver(by, keys, count) ==
    IF keys = {} THEN 0
    ELSE LET k == CHOOSE k \in keys : TRUE
         IN  by[k][count] + SumOver(by, keys \ {k}, count)

\* A test of the severity raised out of one of its hooks.
Crashed(sev) ==
    \E p \in DOMAIN filtered_tests :
        filtered_tests[p].severity = sev /\ Raised(filtered_tests[p].name)

\* C27: the breakdowns by severity and by category agree with the summary:
\* their failed counts sum to summary.failed and their passed counts to
\* summary.passed, so that a critical test that crashed in the runner is
\* counted by the critical-failures gate.
C27_BreakdownAgrees ==
    Ended =>
        /\ \A b \in {"by_severity", "by_category"} :
              /\ SumOver(results.metrics[b], DOMAIN results.metrics[b], "failed")
                    = results.summary.failed
              /\ SumOver(results.metrics[b], DOMAIN results.metrics[b], "passed")
                    = results.summary.passed
        /\ Crashed("critical") => severity_failures(results, "critical") >= 1

\* run() of a system test has returned, every step of its scenario was run
\* on an agent or team of the system without raising, and the total time is
\* within max_execution_time.
ScenarioExecuted ==
    /\ eval.fn = "run"
    /\ eval.result # <<>>
    /\ eval.test = "SystemIntegrationTest"
    /\ ~eval.raises
    /\ eval.timing_met
    /\ \A i \in DOMAIN eval.steps : eval.steps[i].found

\* C28 for the scenarios none of whose steps has a "name".
C28_PassesWithoutNames ==
    (ScenarioExecuted /\ \A i \in DOMAIN eval.steps : eval.steps[i].name = <<>>)
        => (~eval.result[1].raised /\ Ran.passed)

\* C28: a SystemIntegrationTest passes whenever every step of its scenario
\* was executed against a matching agent or team without raising and the
\* total execution time is within max_execution_time, also when the steps
\* carry an explicit "name".
C28_ExecutedScenarioPasses ==
    ScenarioExecuted => (~eval.result[1].raised /\ Ran.passed)

\* C29: a CI run in which no test fails returns exit code 0 and its report
\* has build status PASSED; so does the run whose filtered test set is empty
\* (no test executed, no failure).
C29_NoFailureIsPassed ==
    (Returned /\ results.summary.failed = 0) =>
        /\ ExitCode = 0
        /\ BuildStatus = "PASSED"

\* C30: each completed call of run_tests leaves its own timestamped results
\* file, which no later run overwrites: a timestamped file that holds a whole
\* document is never written again, so that n completed runs leave n files.
C30_TimestampedFilesKept ==
    [][ \A t \in DOMAIN output_dir.timestamped :
            Complete(output_dir.timestamped[t])
                => output_dir'.timestamped[t] = output_dir.timestamped[t] ]_vars

====
